---------------------------- MODULE Spec2Model ----------------------------
(***************************************************************************)
(* Model of the gaxx fleet orchestration and secure transport core.        *)
(*                                                                         *)
(*   SpecFleet / SpecFleetLive  executeTaskOnFleet (cmd/gaxx/subcommands)  *)
(*   SpecTransfer               FileTransfer.TransferFile (core)           *)
(*   SpecSSH                    Client.RunCommand, Dial and their callers  *)
(*   SpecAgent                  the agent's /v0/exec handler and main      *)
(*   SpecChunk                  core.ChunkInputs                           *)
(*   SpecDispatch               executeTaskOnFleet: chunks sent to nodes   *)
(*   SpecUpload                 uploadFilesToFleet                         *)
(*   SpecKnownHosts             the known-hosts file and "gaxx init"       *)
(*   SpecEnv                    the environment sent with a task           *)
(*   SpecMetrics                core.Metrics under concurrent calls        *)
(*   SpecExecLive               Gaxx.ExecuteTasks (core)                   *)
(*   SpecScan                   runScanCommand: uploads, then the task     *)
(*   SpecHTTP                   RetryableHTTPClient.Do (providers)         *)
(*                                                                         *)
(* Each specification moves only its own group of variables; the other     *)
(* groups keep the value given to them by Idle... and stay UNCHANGED.      *)
(***************************************************************************)
EXTENDS Integers, Sequences, FiniteSets, TLC

\* ------------------------------------------------------------------ bounds
\* Largest fleet handed to executeTaskOnFleet.
MaxNodes == 3
\* Largest fleet of the liveness check.
MaxNodesLive == 2
\* Longest file content, in bytes.
MaxFileLen == 2
\* Largest configured retry count.
MaxRetries == 2
\* Largest Client.Backoff, in units of 500 ms.
MaxBackoff == 2
\* Largest timeout_seconds of an exec request.
MaxTimeout == 2
\* Longest run of a command, in seconds.
MaxDur == 3
\* Longest input list handed to ChunkInputs.
MaxItems == 5
\* Largest chunk size handed to ChunkInputs.
MaxChunkSize == 3
\* Largest fleet, most input lines and largest task.ChunkSize of
\* SpecDispatch.
MaxDispNodes == 3
MaxDispLines == 4
MaxDispChunkSize == 2
\* Largest fleet handed to uploadFilesToFleet.
MaxUpNodes == 3
\* Most entries the known-hosts file is grown to.
MaxKhEntries == 3
\* Most concurrent calls on one Metrics value.
MaxMetricCalls == 3
\* Longest duration handed to RecordRequest.
MaxMetricDuration == 2
\* Largest Config.Concurrency and most (task, instance) pairs handed to
\* Gaxx.ExecuteTasks.
MaxExConcurrency == 2
MaxExWorkers == 3
\* Largest RetryConfig.MaxRetries (DefaultRetryConfig sets 3).
MaxHttpRetries == 3

VARIABLES
    \* ---- executeTaskOnFleet
    nodes,        \* the fleet: sequence of node names, in fleet order
    concParam,    \* the concurrency argument as passed by the caller
    concurrency,  \* the local variable after "if concurrency <= 0"
    phase,        \* Pending, Dispatching, Awaiting, Reporting, Done
    loopIdx,      \* number of nodes the dispatch loop has handled
    semaphore,    \* number of tokens in the buffered channel
    wg,           \* sync.WaitGroup counter
    mu,           \* 0 when the mutex is free, else the goroutine holding it
    results,      \* map[string][]nodeResult
    gpc,          \* position of the goroutine started for node i
    gres,         \* the goroutine's local variable result
    successful,   \* summary counters
    failed,
    \* ---- FileTransfer.TransferFile
    tfPc,           \* the statement TransferFile is about to run
    localFile,      \* content of the file at localPath
    localChecksum,  \* hex SHA-256 computed before the transfer, <<>> while unset
    remoteFile,     \* the file at remotePath on the node
    tfConn,         \* the SSH connection: none, open, lost, closed
    tfErr,          \* TransferFile's return value: "nil" or the error's prefix
    remoteChecksum, \* verifyRemoteChecksum's local variable, <<>> while unset
    tfCopies,       \* number of stream copies started by this call
    corrupted,      \* the destination was altered between copy and verification
    \* ---- Secure Transport
    caller,          \* which code path opens the connection
    khLoadOk,        \* whether LoadKnownHostsCallback succeeds
    knownHosts,      \* the (host, key) entries of the known-hosts file
    presentedKey,    \* the public key the host presents
    cfgRetries,      \* the retry count of the configuration
    hostKeyCallback, \* Client.KnownHosts / ClientConfig.HostKeyCallback
    clientRetries,   \* Client.Retries
    clientBackoff,   \* Client.Backoff, in units of 500 ms
    sshPc,           \* position in the caller, RunCommand, Dial or Execute
    retries,         \* RunCommand's local retries
    attempt,         \* RunCommand's loop variable
    dialLog,         \* outcome of every xssh.Dial made, in order
    waits,           \* backoffs waited, in order, in units of 500 ms
    lastErr,         \* RunCommand's lastErr
    sshRet,          \* the error returned, "pending" before the return
    conns,           \* connections established: verifier used, open or closed
    ctxCancelled,    \* the caller's context is done
    cmdRuns,         \* times the remote command was started
    dialCh,          \* Dial's goroutine and its result channel
    \* ---- gaxx-agent
    agentToken,    \* GAXX_AGENT_TOKEN
    mtlsRequired,  \* GAXX_AGENT_REQUIRE_MTLS=true with cert, key and CA set
    listenMode,    \* how main serves: none, plain, tls, mtls
    agPc,          \* boot, listening, received, waiting, responded
    req,           \* the request being handled
    proc,          \* the child process: none, running, exited, killed
    elapsed,       \* seconds since the child was started
    resp,          \* the response written
    procStarts,    \* number of processes started
    \* ---- core.ChunkInputs
    ciInputs,  \* the argument inputs
    ciSize,    \* the argument chunkSize
    ciChunks,  \* the returned chunks
    ciPc,      \* called, returned
    \* ---- executeTaskOnFleet, the chunks and what each node is sent
    dN,          \* len(nodes)
    dHaveInputs, \* len(inputs) > 0: input files were named
    dReadOk,     \* whether every input file can be read
    dAllInputs,  \* the non-blank lines of the input files
    dChunkSize,  \* task.ChunkSize
    inputChunks, \* the local inputChunks
    dPc,         \* start, loop, waiting, returned, panicked
    dI,          \* nodes the dispatch loop has handled
    dChunkArg,   \* per node: the chunk index and the chunk given to its goroutine
    dAgent,      \* per node: how the agent call ended, "none" before
    dSent,       \* per node: the chunks sent in exec requests, in order
    dSshRuns,    \* per node: commands run over Secure Transport
    dResult,     \* per node: the nodeResult recorded
    dReport,     \* per node: what "Failed outputs" prints for it
    dRet,        \* the returned error: pending, nil, or its prefix
    \* ---- uploadFilesToFleet
    upN,      \* len(nodes)
    upPc,     \* loop, waiting, returned
    upI,      \* nodes the loop has handled
    upWg,     \* sync.WaitGroup counter
    upNode,   \* per node: unborn, running, ok, failed
    errChan,  \* the buffered channel: the nodes whose error was sent, in order
    upRet,    \* the returned error: pending, nil, or the node it names
    \* ---- the known-hosts file
    khExists,   \* whether the file exists
    khEntries,  \* its lines, in file order: (host, public key) entries
    khBefore,   \* the lines before the last operation
    khOp,       \* the last operation: none, ensure, append, load, init
    khErr,      \* what the last operation returned: nil or the error's prefix
    khLoaded,   \* the callback: whether one was loaded, and the entries it read
    \* ---- the environment sent with a task
    envCmd,       \* the subcommand: run --module, run with a command, scan
    declaredEnv,  \* the env: section of the task module, as loaded
    envVars,      \* the --env flags of the caller
    taskEnv,      \* task.Env
    execReqEnv,   \* ExecRequest.Env, the "key=value" strings in slice order
    envPc,        \* idle, start, task, sent
    \* ---- core.Metrics
    mCalls,     \* per goroutine: the call it makes and its argument
    mPc,        \* per goroutine: position inside the call
    mReg,       \* per goroutine: the value read for the pending increment
    mMu,        \* Metrics.mu: 0 when free, else the goroutine holding it
    requests,   \* Metrics.requests
    errors,     \* Metrics.errors
    duration,   \* Metrics.duration
    mStats,     \* what GetStats returned, and which calls had returned then
    \* ---- Gaxx.ExecuteTasks
    exConcurrency, \* g.config.Concurrency
    exTasks,       \* len(tasks)
    exInstances,   \* len(instances)
    exPc,          \* idle, loop, waiting, returned
    exI,           \* goroutines started by the two loops
    exSem,         \* values held by the channel sem
    exWg,          \* sync.WaitGroup counter
    exW,           \* per goroutine: send, running, release, wgdone, done
    exErrors,      \* the slice errors: the goroutines that appended, in order
    exRet,         \* the returned error: pending, nil, or its prefix
    \* ---- runScanCommand
    scanUploads,  \* len(uploadFiles) > 0
    scanPc,       \* idle, start, uploading, dispatch, returned
    scanRet,      \* the returned error: pending, nil, or its prefix
    \* ---- RetryableHTTPClient.Do
    hMaxRetries,  \* c.retryConfig.MaxRetries
    hPc,          \* idle, loop, returned
    hAttempt,     \* the loop variable attempt
    hLog,         \* how each c.client.Do ended, in order
    hLastErr,     \* the local lastErr
    hRet          \* the returned pair: the response's status (0: nil) and err

fleetVars == <<nodes, concParam, concurrency, phase, loopIdx, semaphore, wg,
               mu, results, gpc, gres, successful, failed>>

tfVars == <<tfPc, localFile, localChecksum, remoteFile, tfConn, tfErr,
            remoteChecksum, tfCopies, corrupted>>

sshVars == <<caller, khLoadOk, knownHosts, presentedKey, cfgRetries, clientBackoff,
             hostKeyCallback, clientRetries, sshPc, retries, attempt, dialLog,
             waits, lastErr, sshRet, conns, ctxCancelled, cmdRuns, dialCh>>

agentVars == <<agentToken, mtlsRequired, listenMode, agPc, req, proc, elapsed,
               resp, procStarts>>

chunkVars == <<ciInputs, ciSize, ciChunks, ciPc>>

dispVars == <<dN, dHaveInputs, dReadOk, dAllInputs, dChunkSize, inputChunks, dPc,
              dI, dChunkArg, dAgent, dSent, dSshRuns, dResult, dReport, dRet>>

upVars == <<upN, upPc, upI, upWg, upNode, errChan, upRet>>

khVars == <<khExists, khEntries, khBefore, khOp, khErr, khLoaded>>

envVarsGroup == <<envCmd, declaredEnv, envVars, taskEnv, execReqEnv, envPc>>

metricsVars == <<mCalls, mPc, mReg, mMu, requests, errors, duration, mStats>>

execVars == <<exConcurrency, exTasks, exInstances, exPc, exI, exSem, exWg, exW,
              exErrors, exRet>>

scanVars == <<scanUploads, scanPc, scanRet>>

httpVars == <<hMaxRetries, hPc, hAttempt, hLog, hLastErr, hRet>>

vars == <<fleetVars, tfVars, sshVars, agentVars, chunkVars,
          dispVars, upVars, khVars, envVarsGroup, metricsVars, execVars, scanVars, httpVars>>

\* What a step of one specification leaves alone: every other group.
exceptFleet ==
    <<tfVars, sshVars, agentVars, chunkVars, dispVars, upVars, khVars,
      envVarsGroup, metricsVars, execVars, scanVars, httpVars>>
exceptTransfer ==
    <<fleetVars, sshVars, agentVars, chunkVars, dispVars, upVars, khVars,
      envVarsGroup, metricsVars, execVars, scanVars, httpVars>>
exceptSSH ==
    <<fleetVars, tfVars, agentVars, chunkVars, dispVars, upVars, khVars,
      envVarsGroup, metricsVars, execVars, scanVars, httpVars>>
exceptAgent ==
    <<fleetVars, tfVars, sshVars, chunkVars, dispVars, upVars, khVars,
      envVarsGroup, metricsVars, execVars, scanVars, httpVars>>
exceptChunk ==
    <<fleetVars, tfVars, sshVars, agentVars, dispVars, upVars, khVars,
      envVarsGroup, metricsVars, execVars, scanVars, httpVars>>
exceptDispatch ==
    <<fleetVars, tfVars, sshVars, agentVars, chunkVars, upVars, khVars,
      envVarsGroup, metricsVars, execVars, scanVars, httpVars>>
exceptUpload ==
    <<fleetVars, tfVars, sshVars, agentVars, chunkVars, dispVars, khVars,
      envVarsGroup, metricsVars, execVars, scanVars, httpVars>>
exceptKnownHosts ==
    <<fleetVars, tfVars, sshVars, agentVars, chunkVars, dispVars, upVars,
      envVarsGroup, metricsVars, execVars, scanVars, httpVars>>
exceptEnv ==
    <<fleetVars, tfVars, sshVars, agentVars, chunkVars, dispVars, upVars,
      khVars, metricsVars, execVars, scanVars, httpVars>>
exceptMetrics ==
    <<fleetVars, tfVars, sshVars, agentVars, chunkVars, dispVars, upVars,
      khVars, envVarsGroup, execVars, scanVars, httpVars>>
exceptExec ==
    <<fleetVars, tfVars, sshVars, agentVars, chunkVars, dispVars, upVars,
      khVars, envVarsGroup, metricsVars, scanVars, httpVars>>
exceptScan ==
    <<fleetVars, tfVars, sshVars, agentVars, chunkVars, dispVars, upVars,
      khVars, envVarsGroup, metricsVars, execVars, httpVars>>
exceptHTTP ==
    <<fleetVars, tfVars, sshVars, agentVars, chunkVars, dispVars, upVars,
      khVars, envVarsGroup, metricsVars, execVars, scanVars>>

\* ------------------------------------------------------------ helpers
Range(s) == {s[i] : i \in 1..Len(s)}

RECURSIVE SumOver(_, _)
\* Sum of f[x] over the finite set S.
SumOver(f, S) ==
    IF S = {} THEN 0
    ELSE LET x == CHOOSE y \in S : TRUE IN f[x] + SumOver(f, S \ {x})

\* ===================================================================
\* executeTaskOnFleet
\* ===================================================================

\* nodeResult, reduced to the fields the summary and the report read.
NoResult == [ExitCode |-> 0, Stderr |-> "unset"]

\* What the agent's exec handler can answer: exit_code with stderr always "".
AgentReplies == {[ExitCode |-> 0, Stderr |-> ""], [ExitCode |-> 2, Stderr |-> ""]}

\* executeOnNode: the agent's reply when executeViaAgent returned no error,
\* otherwise exit code 1 with the transport error text in Stderr.
TransportFailure == [ExitCode |-> 1, Stderr |-> "Agent execution failed"]

ExecuteOnNodeResults == AgentReplies \cup {TransportFailure}

\* Fleets: n nodes of which the first d share one name, the others are unique.
Fleets(m) ==
    {[i \in 1..n |-> IF i <= d THEN 1 ELSE i] : n \in 1..m, d \in 1..m}

NodeIds == 1..Len(nodes)

\* Variant: the configured limit is ignored, the pool is as large as the fleet.
LimitIgnored(c, n) == n

\* "if concurrency <= 0 { concurrency = len(nodes) }"
ConcurrencyLimit(c, n) == IF c <= 0 THEN n ELSE c

\* Variant: "results[node.Name] = []nodeResult{result}", the last writer wins.
OverwriteResult(res, name, r) == [res EXCEPT ![name] = <<r>>]

\* "results[node.Name] = append(results[node.Name], result)"
RecordResult(res, name, r) == [res EXCEPT ![name] = Append(res[name], r)]

\* Variant: the slot is given back only after a successful execution.
ReleaseOnSuccessOnly(held, r) == IF r.ExitCode = 0 THEN held - 1 ELSE held

\* "defer func() { <-semaphore }()": runs whatever the result was.
ReleaseSlot(held, r) == held - 1

IdleFleet ==
    /\ nodes = <<>>
    /\ concParam = 0
    /\ concurrency = 0
    /\ phase = "Idle"
    /\ loopIdx = 0
    /\ semaphore = 0
    /\ wg = 0
    /\ mu = 0
    /\ results = <<>>
    /\ gpc = <<>>
    /\ gres = <<>>
    /\ successful = 0
    /\ failed = 0

InitFleetUpTo(m) ==
    /\ nodes \in Fleets(m)
    /\ concParam \in -1..m
    /\ concurrency = concParam
    /\ phase = "Pending"
    /\ loopIdx = 0
    /\ semaphore = 0
    /\ wg = 0
    /\ mu = 0
    /\ results = [n \in Range(nodes) |-> <<>>]
    /\ gpc = [i \in 1..Len(nodes) |-> "unborn"]
    /\ gres = [i \in 1..Len(nodes) |-> NoResult]
    /\ successful = 0
    /\ failed = 0

\* Lines 456-479: chunks are prepared, the limit is defaulted, the semaphore,
\* the wait group, the mutex and the result map are created.
Prepare ==
    /\ phase = "Pending"
    /\ concurrency' = ConcurrencyLimit(concParam, Len(nodes))
    /\ phase' = "Dispatching"
    /\ UNCHANGED <<nodes, concParam, loopIdx, semaphore, wg, mu, results, gpc,
                   gres, successful, failed>>

\* Lines 481-503: one iteration of the loop: wg.Add(1); go func(...)
Dispatch ==
    /\ phase = "Dispatching"
    /\ loopIdx < Len(nodes)
    /\ loopIdx' = loopIdx + 1
    /\ wg' = wg + 1
    /\ gpc' = [gpc EXCEPT ![loopIdx + 1] = "spawned"]
    /\ UNCHANGED <<nodes, concParam, concurrency, phase, semaphore, mu, results,
                   gres, successful, failed>>

\* The loop is over: the caller reaches wg.Wait().
EndDispatch ==
    /\ phase = "Dispatching"
    /\ loopIdx = Len(nodes)
    /\ phase' = "Awaiting"
    /\ UNCHANGED <<nodes, concParam, concurrency, loopIdx, semaphore, wg, mu,
                   results, gpc, gres, successful, failed>>

\* Line 488: "semaphore <- struct{}{}" blocks while the channel is full.
Acquire(g) ==
    /\ gpc[g] = "spawned"
    /\ semaphore < concurrency
    /\ semaphore' = semaphore + 1
    /\ gpc' = [gpc EXCEPT ![g] = "running"]
    /\ UNCHANGED <<nodes, concParam, concurrency, phase, loopIdx, wg, mu,
                   results, gres, successful, failed>>

\* Line 491: executeOnNode returns.
ExecReturn(g) ==
    /\ gpc[g] = "running"
    /\ \E r \in ExecuteOnNodeResults : gres' = [gres EXCEPT ![g] = r]
    /\ gpc' = [gpc EXCEPT ![g] = "returned"]
    /\ UNCHANGED <<nodes, concParam, concurrency, phase, loopIdx, semaphore, wg,
                   mu, results, successful, failed>>

\* Line 493: mu.Lock()
Lock(g) ==
    /\ gpc[g] = "returned"
    /\ mu = 0
    /\ mu' = g
    /\ gpc' = [gpc EXCEPT ![g] = "locked"]
    /\ UNCHANGED <<nodes, concParam, concurrency, phase, loopIdx, semaphore, wg,
                   results, gres, successful, failed>>

\* Lines 494-495: the append and mu.Unlock()
WriteUnlock(g) ==
    /\ gpc[g] = "locked"
    /\ results' = RecordResult(results, nodes[g], gres[g])
    /\ mu' = 0
    /\ gpc' = [gpc EXCEPT ![g] = "written"]
    /\ UNCHANGED <<nodes, concParam, concurrency, phase, loopIdx, semaphore, wg,
                   gres, successful, failed>>

\* Lines 497-502 and the first deferred call: status line, then <-semaphore.
Release(g) ==
    /\ gpc[g] = "written"
    /\ semaphore' = ReleaseSlot(semaphore, gres[g])
    /\ gpc' = [gpc EXCEPT ![g] = "released"]
    /\ UNCHANGED <<nodes, concParam, concurrency, phase, loopIdx, wg, mu,
                   results, gres, successful, failed>>

\* The last deferred call: wg.Done()
WgDone(g) ==
    /\ gpc[g] = "released"
    /\ wg' = wg - 1
    /\ gpc' = [gpc EXCEPT ![g] = "done"]
    /\ UNCHANGED <<nodes, concParam, concurrency, phase, loopIdx, semaphore, mu,
                   results, gres, successful, failed>>

\* Variant: a Wait that returns at once.
WaitNeverBlocks(counter) == TRUE

\* sync.WaitGroup.Wait returns when the counter is zero.
WaitReturns(counter) == counter = 0

\* Line 505: wg.Wait().
Join ==
    /\ phase = "Awaiting"
    /\ WaitReturns(wg)
    /\ phase' = "Reporting"
    /\ UNCHANGED <<nodes, concParam, concurrency, loopIdx, semaphore, wg, mu,
                   results, gpc, gres, successful, failed>>

CountExit(res, zero) ==
    SumOver([n \in DOMAIN res |->
                Cardinality({k \in 1..Len(res[n]) : (res[n][k].ExitCode = 0) = zero})],
            DOMAIN res)

\* Lines 507-553: the counts, the summary line, the failed outputs, return nil.
Report ==
    /\ phase = "Reporting"
    /\ successful' = CountExit(results, TRUE)
    /\ failed' = CountExit(results, FALSE)
    /\ phase' = "Done"
    /\ UNCHANGED <<nodes, concParam, concurrency, loopIdx, semaphore, wg, mu,
                   results, gpc, gres>>

\* ===================================================================
\* FileTransfer.TransferFile
\* ===================================================================

Bytes == {0, 1}

\* File contents of at most MaxFileLen bytes.
Contents == UNION {[1..n -> Bytes] : n \in 0..MaxFileLen}

Absent == [exists |-> FALSE, data |-> <<>>]

Present(c) == [exists |-> TRUE, data |-> c]

HexDigits == <<"0", "1", "2", "3", "4", "5", "6", "7", "8", "9",
               "a", "b", "c", "d", "e", "f">>

RECURSIVE Digest(_)
\* SHA-256 as a collision-free digest of the content: a number that differs
\* for any two contents (the length bit in front of the bytes).
Digest(c) ==
    IF c = <<>> THEN 1 ELSE 2 * Digest(SubSeq(c, 1, Len(c) - 1)) + c[Len(c)]

RECURSIVE HexEncode(_)
\* hex.EncodeToString, most significant digit first.
HexEncode(n) ==
    IF n < 16 THEN <<HexDigits[n + 1]>>
    ELSE Append(HexEncode(n \div 16), HexDigits[(n % 16) + 1])

\* calculateChecksum: hex.EncodeToString(hasher.Sum(nil))
CalculateChecksum(c) == HexEncode(Digest(c))

\* The output of "sha256sum <path> | cut -d' ' -f1": the hex digest and a newline.
RemoteHashOutput(c) == Append(HexEncode(Digest(c)), "\n")

\* "remoteChecksum = remoteChecksum[:len(remoteChecksum)-1]"
StripNewline(out) == SubSeq(out, 1, Len(out) - 1)

\* Variant: the failed transfer is not cleaned up.
RemoveSkipped(file, alive) == file

\* "_ = sftpClient.Remove(remotePath)": the error is dropped, so the file
\* goes only when the connection still carries the request.
RemoveRemote(file, alive) == IF alive THEN Absent ELSE file

\* "if remoteChecksum != expectedChecksum"
ChecksumMismatch(remote, expected) == remote # expected

\* The content with byte i replaced by the other value.
FlipByte(c, i) == [c EXCEPT ![i] = 1 - c[i]]

IdleTransfer ==
    /\ tfPc = "idle"
    /\ localFile = <<>>
    /\ localChecksum = <<>>
    /\ remoteFile = Absent
    /\ tfConn = "none"
    /\ tfErr = "pending"
    /\ remoteChecksum = <<>>
    /\ tfCopies = 0
    /\ corrupted = FALSE

\* A call of TransferFile: any local content, the destination free or holding
\* a file left by an earlier run.
StartTransfer ==
    /\ tfPc = "checksum"
    /\ localFile \in Contents
    /\ localChecksum = <<>>
    /\ remoteFile \in {Absent, Present(<<1>>)}
    /\ tfConn = "none"
    /\ tfErr = "pending"
    /\ remoteChecksum = <<>>
    /\ tfCopies = 0
    /\ corrupted = FALSE

\* The deferred Close calls run at every return after connectSSH succeeded.
ReturnFrom(err) ==
    /\ tfPc' = "returned"
    /\ tfErr' = err
    /\ tfConn' = IF tfConn \in {"open", "lost"} THEN "closed" ELSE tfConn

\* Lines 31-34: calculateChecksum(localPath)
TfChecksum ==
    /\ tfPc = "checksum"
    /\ \/ /\ localChecksum' = CalculateChecksum(localFile)
          /\ tfPc' = "connect"
          /\ UNCHANGED <<tfConn, tfErr>>
       \/ /\ ReturnFrom("calculate local checksum")
          /\ UNCHANGED localChecksum
    /\ UNCHANGED <<localFile, remoteFile, remoteChecksum, tfCopies, corrupted>>

\* Lines 37-41: connectSSH
TfConnect ==
    /\ tfPc = "connect"
    /\ \/ /\ tfConn' = "open"
          /\ tfPc' = "sftp"
          /\ UNCHANGED tfErr
       \/ ReturnFrom("connect SSH")
    /\ UNCHANGED <<localFile, localChecksum, remoteFile, remoteChecksum,
                   tfCopies, corrupted>>

\* Lines 44-54: sftp.NewClient and MkdirAll of the remote directory
TfSftpMkdir ==
    /\ tfPc = "sftp"
    /\ \/ /\ tfPc' = "open"
          /\ UNCHANGED <<tfConn, tfErr>>
       \/ ReturnFrom("create SFTP client")
       \/ ReturnFrom("create remote directory")
    /\ UNCHANGED <<localFile, localChecksum, remoteFile, remoteChecksum,
                   tfCopies, corrupted>>

\* Lines 57-61: os.Open(localPath)
TfOpenLocal ==
    /\ tfPc = "open"
    /\ \/ /\ tfPc' = "create"
          /\ UNCHANGED <<tfConn, tfErr>>
       \/ ReturnFrom("open local file")
    /\ UNCHANGED <<localFile, localChecksum, remoteFile, remoteChecksum,
                   tfCopies, corrupted>>

\* Lines 64-68: sftpClient.Create(remotePath) creates or truncates the file.
TfCreateRemote ==
    /\ tfPc = "create"
    /\ \/ /\ remoteFile' = Present(<<>>)
          /\ tfPc' = "copy"
          /\ UNCHANGED <<tfConn, tfErr>>
       \/ /\ ReturnFrom("create remote file")
          /\ UNCHANGED remoteFile
    /\ UNCHANGED <<localFile, localChecksum, remoteChecksum, tfCopies, corrupted>>

\* Lines 71-74: io.Copy writes the whole file, or fails after n bytes and
\* TransferFile returns at once.
TfCopy ==
    /\ tfPc = "copy"
    /\ tfCopies' = tfCopies + 1
    /\ \/ /\ remoteFile' = Present(localFile)
          /\ tfPc' = "verify"
          /\ UNCHANGED <<tfConn, tfErr>>
       \/ /\ \E n \in 0..Len(localFile) :
                remoteFile' = Present(SubSeq(localFile, 1, n))
          /\ ReturnFrom("copy file")
    /\ UNCHANGED <<localFile, localChecksum, remoteChecksum, corrupted>>

\* The destination is altered before the verification reads it.
Corrupt ==
    /\ tfPc = "verify"
    /\ ~corrupted
    /\ \E i \in 1..Len(remoteFile.data) :
          remoteFile' = Present(FlipByte(remoteFile.data, i))
    /\ corrupted' = TRUE
    /\ UNCHANGED <<tfPc, localFile, localChecksum, tfConn, tfErr, remoteChecksum,
                   tfCopies>>

\* Lines 77-83 with verifyRemoteChecksum: the session or the hash command
\* fails, or the hashes are compared; on any error the file is removed.
TfVerify ==
    /\ tfPc = "verify"
    /\ \/ \E alive \in BOOLEAN :
             /\ remoteFile' = RemoveRemote(remoteFile, alive)
             /\ \E e \in {"create session", "calculate remote checksum"} :
                   /\ tfPc' = "returned"
                   /\ tfErr' = e
                   /\ tfConn' = "closed"
             /\ UNCHANGED remoteChecksum
       \/ LET sum == StripNewline(RemoteHashOutput(remoteFile.data)) IN
             /\ remoteChecksum' = sum
             /\ IF ChecksumMismatch(sum, localChecksum)
                THEN /\ remoteFile' = RemoveRemote(remoteFile, TRUE)
                     /\ ReturnFrom("checksum mismatch")
                ELSE /\ UNCHANGED remoteFile
                     /\ ReturnFrom("nil")
    /\ UNCHANGED <<localFile, localChecksum, tfCopies, corrupted>>

\* ===================================================================
\* Secure Transport: Client.RunCommand, Dial, SSHClient.Execute, callers
\* ===================================================================

Keys == {"k1", "k2"}

\* The address every caller dials.
Host == "node"

\* newScpCmd, newSSHCmd, FileTransfer.connectSSH, SSHClient.Execute, and a
\* direct user of the exported Client whose fields are free.
Callers == {"scp", "ssh", "transfer", "execute", "api"}

\* newScpCmd: "Retries: 2"
ScpRetries == 2

\* LoadKnownHostsCallback: the strict callback of knownhosts.New, or nil
\* together with the error.
LoadKnownHostsCallback(ok) == IF ok THEN "strict" ELSE "nil"

\* makeConfig: "if c.KnownHosts == nil { c.KnownHosts = InsecureIgnoreHostKey() }"
MakeConfigCallback(kh) == IF kh = "nil" THEN "insecure" ELSE kh

\* The callback's answer for the key the host presents: knownhosts.New
\* accepts only a recorded (host, key) pair, InsecureIgnoreHostKey everything.
HostKeyAccepted(cb, known, key) ==
    \/ cb = "insecure"
    \/ cb = "strict" /\ <<Host, key>> \in known

\* xssh.Dial: the network may fail; otherwise the handshake runs the callback.
DialOutcomes(cb, known, key) ==
    {"transient"} \cup {IF HostKeyAccepted(cb, known, key) THEN "ok" ELSE "hostkey"}

\* Client.Backoff as the callers set it: 500 ms in newScpCmd and connectSSH,
\* unset in newSSHCmd and unused by Execute, free for a direct user.
CallerBackoffs(c) ==
    CASE c \in {"scp", "transfer"} -> {1}
      [] c = "api" -> -1..MaxBackoff
      [] OTHER -> {0}

\* "backoff := c.Backoff; if backoff <= 0 { backoff = 500 * time.Millisecond }"
DefaultedBackoff(b) == IF b <= 0 THEN 1 ELSE b

\* Variant: the same wait before every retry.
BackoffConstant(b, att) == b

\* "time.After(backoff * time.Duration(attempt+1))"
BackoffWait(b, att) == b * (att + 1)

\* "if attempt < retries": the loop goes on after any error.
ShouldRetry(att, n) == att < n

\* "if retries < 0 { retries = 0 }"
ClampRetries(r) == IF r < 0 THEN 0 ELSE r

NewConn(cb) == [verifier |-> cb, open |-> TRUE]

CloseLast(cs) == [cs EXCEPT ![Len(cs)].open = FALSE]

IdleSSH ==
    /\ caller = "none"
    /\ khLoadOk = TRUE
    /\ knownHosts = {}
    /\ presentedKey = "k1"
    /\ cfgRetries = 0
    /\ hostKeyCallback = "unset"
    /\ clientRetries = 0
    /\ clientBackoff = 0
    /\ sshPc = "idle"
    /\ retries = 0
    /\ attempt = 0
    /\ dialLog = <<>>
    /\ waits = <<>>
    /\ lastErr = "nil"
    /\ sshRet = "pending"
    /\ conns = <<>>
    /\ ctxCancelled = FALSE
    /\ cmdRuns = 0
    /\ dialCh = "none"

StartSSH ==
    /\ caller \in Callers
    /\ khLoadOk \in BOOLEAN
    /\ knownHosts \in SUBSET ({Host} \X Keys)
    /\ presentedKey \in Keys
    /\ cfgRetries \in -1..MaxRetries
    /\ hostKeyCallback = "unset"
    /\ clientRetries = 0
    /\ clientBackoff \in CallerBackoffs(caller)
    /\ sshPc = "caller"
    /\ retries = 0
    /\ attempt = 0
    /\ dialLog = <<>>
    /\ waits = <<>>
    /\ lastErr = "nil"
    /\ sshRet = "pending"
    /\ conns = <<>>
    /\ ctxCancelled = FALSE
    /\ cmdRuns = 0
    /\ dialCh = "none"

SshReturn(err) ==
    /\ sshPc' = "returned"
    /\ sshRet' = err

\* newScpCmd 203-209: "kh, _ := LoadKnownHostsCallback(...)", then Dial.
CallScp ==
    /\ sshPc = "caller" /\ caller = "scp"
    /\ hostKeyCallback' = LoadKnownHostsCallback(khLoadOk)
    /\ clientRetries' = ScpRetries
    /\ sshPc' = "dial_config"
    /\ UNCHANGED <<caller, khLoadOk, knownHosts, presentedKey, cfgRetries, clientBackoff,
                   retries, attempt, dialLog, waits, lastErr, sshRet, conns,
                   ctxCancelled, cmdRuns, dialCh>>

\* newSSHCmd 281-287: the load error is dropped too, Retries is left 0,
\* then RunCommand.
CallSsh ==
    /\ sshPc = "caller" /\ caller = "ssh"
    /\ hostKeyCallback' = LoadKnownHostsCallback(khLoadOk)
    /\ clientRetries' = 0
    /\ sshPc' = "rc_config"
    /\ UNCHANGED <<caller, khLoadOk, knownHosts, presentedKey, cfgRetries, clientBackoff,
                   retries, attempt, dialLog, waits, lastErr, sshRet, conns,
                   ctxCancelled, cmdRuns, dialCh>>

\* FileTransfer.connectSSH: a load error is returned; else Dial.
CallTransfer ==
    /\ sshPc = "caller" /\ caller = "transfer"
    /\ IF khLoadOk
       THEN /\ hostKeyCallback' = LoadKnownHostsCallback(khLoadOk)
            /\ clientRetries' = cfgRetries
            /\ sshPc' = "dial_config"
            /\ UNCHANGED sshRet
       ELSE /\ SshReturn("load known hosts")
            /\ UNCHANGED <<hostKeyCallback, clientRetries>>
    /\ UNCHANGED <<caller, khLoadOk, knownHosts, presentedKey, cfgRetries, clientBackoff,
                   retries, attempt, dialLog, waits, lastErr, conns,
                   ctxCancelled, cmdRuns, dialCh>>

\* A program using the exported Client directly: any Retries, KnownHosts
\* the loaded callback or nil, then RunCommand.
CallApi ==
    /\ sshPc = "caller" /\ caller = "api"
    /\ hostKeyCallback' = LoadKnownHostsCallback(khLoadOk)
    /\ clientRetries' = cfgRetries
    /\ sshPc' = "rc_config"
    /\ UNCHANGED <<caller, khLoadOk, knownHosts, presentedKey, cfgRetries, clientBackoff,
                   retries, attempt, dialLog, waits, lastErr, sshRet, conns,
                   ctxCancelled, cmdRuns, dialCh>>

\* SSHClient.Execute 65-78: the ClientConfig is built with
\* InsecureIgnoreHostKey, then ssh.Dial.
ExecuteDial ==
    /\ sshPc = "caller" /\ caller = "execute"
    /\ hostKeyCallback' = "insecure"
    /\ \E o \in DialOutcomes("insecure", knownHosts, presentedKey) :
          /\ dialLog' = Append(dialLog, o)
          /\ IF o = "ok"
             THEN /\ conns' = Append(conns, NewConn("insecure"))
                  /\ sshPc' = "exec_run"
                  /\ UNCHANGED sshRet
             ELSE /\ SshReturn("ssh dial")
                  /\ UNCHANGED conns
    /\ UNCHANGED <<caller, khLoadOk, knownHosts, presentedKey, cfgRetries, clientBackoff,
                   clientRetries, retries, attempt, waits, lastErr,
                   ctxCancelled, cmdRuns, dialCh>>

\* SSHClient.Execute 78-87: session, CombinedOutput, deferred Close.
ExecuteRun ==
    /\ sshPc = "exec_run"
    /\ conns' = CloseLast(conns)
    /\ \/ SshReturn("ssh session") /\ UNCHANGED cmdRuns
       \/ \E e \in {"nil", "command failed"} :
             SshReturn(e) /\ cmdRuns' = cmdRuns + 1
    /\ UNCHANGED <<caller, khLoadOk, knownHosts, presentedKey, cfgRetries, clientBackoff,
                   hostKeyCallback, clientRetries, retries, attempt, dialLog,
                   waits, lastErr, ctxCancelled, dialCh>>

\* Variant: the select has no ctx.Done() case.
CtxDoneIgnored(cancelled) == FALSE

\* "case <-ctx.Done():" is ready once the context is cancelled.
CtxDone(cancelled) == cancelled

\* RunCommand 119-131: makeConfig (which also stores the callback in the
\* Client), the retry budget, the loop variable.
RcConfig ==
    /\ sshPc = "rc_config"
    /\ hostKeyCallback' = MakeConfigCallback(hostKeyCallback)
    /\ retries' = ClampRetries(clientRetries)
    /\ attempt' = 0
    /\ sshPc' = "rc_select"
    /\ UNCHANGED <<caller, khLoadOk, knownHosts, presentedKey, cfgRetries, clientBackoff,
                   clientRetries, dialLog, waits, lastErr, sshRet, conns,
                   ctxCancelled, cmdRuns, dialCh>>

\* RunCommand 132-137: the loop condition and the non-blocking ctx.Done check.
RcSelect ==
    /\ sshPc = "rc_select"
    /\ IF CtxDone(ctxCancelled)
       THEN SshReturn("context canceled")
       ELSE sshPc' = "rc_dial" /\ UNCHANGED sshRet
    /\ UNCHANGED <<caller, khLoadOk, knownHosts, presentedKey, cfgRetries, clientBackoff,
                   hostKeyCallback, clientRetries, retries, attempt, dialLog,
                   waits, lastErr, conns, ctxCancelled, cmdRuns, dialCh>>

\* RunCommand 138-141: xssh.Dial
RcDial ==
    /\ sshPc = "rc_dial"
    /\ \E o \in DialOutcomes(hostKeyCallback, knownHosts, presentedKey) :
          /\ dialLog' = Append(dialLog, o)
          /\ IF o = "ok"
             THEN /\ conns' = Append(conns, NewConn(hostKeyCallback))
                  /\ sshPc' = "rc_session"
                  /\ UNCHANGED lastErr
             ELSE /\ lastErr' = o
                  /\ sshPc' = "rc_backoff"
                  /\ UNCHANGED conns
    /\ UNCHANGED <<caller, khLoadOk, knownHosts, presentedKey, cfgRetries, clientBackoff,
                   hostKeyCallback, clientRetries, retries, attempt, waits,
                   sshRet, ctxCancelled, cmdRuns, dialCh>>

\* RunCommand 142-158: NewSession; session.Output; on its error
\* CombinedOutput on the same, already started session, which x/crypto/ssh
\* refuses ("Stdout already set"); then cli.Close().  The success return
\* closes the session only.
RcSession ==
    /\ sshPc = "rc_session"
    /\ \/ /\ lastErr' = "new session"
          /\ conns' = CloseLast(conns)
          /\ sshPc' = "rc_backoff"
          /\ UNCHANGED <<cmdRuns, sshRet>>
       \/ /\ cmdRuns' = cmdRuns + 1
          /\ SshReturn("nil")
          /\ UNCHANGED <<lastErr, conns>>
       \/ /\ cmdRuns' = cmdRuns + 1
          /\ lastErr' = "run command"
          /\ conns' = CloseLast(conns)
          /\ sshPc' = "rc_backoff"
          /\ UNCHANGED sshRet
    /\ UNCHANGED <<caller, khLoadOk, knownHosts, presentedKey, cfgRetries, clientBackoff,
                   hostKeyCallback, clientRetries, retries, attempt, dialLog,
                   waits, ctxCancelled, dialCh>>

\* RunCommand 160-166 and the loop's attempt++: when another attempt is due,
\* wait backoff*(attempt+1) unless the context is done first.
RcBackoff ==
    /\ sshPc = "rc_backoff"
    /\ IF ShouldRetry(attempt, retries)
       THEN \/ /\ CtxDone(ctxCancelled)
               /\ SshReturn("context canceled")
               /\ UNCHANGED <<attempt, waits>>
            \/ /\ waits' = Append(waits, BackoffWait(DefaultedBackoff(clientBackoff),
                                                     attempt))
               /\ attempt' = attempt + 1
               /\ sshPc' = "rc_select"
               /\ UNCHANGED sshRet
       ELSE /\ SshReturn(lastErr)
            /\ UNCHANGED <<attempt, waits>>
    /\ UNCHANGED <<caller, khLoadOk, knownHosts, presentedKey, cfgRetries, clientBackoff,
                   hostKeyCallback, clientRetries, retries, dialLog, lastErr,
                   conns, ctxCancelled, cmdRuns, dialCh>>

\* Dial 174-186: makeConfig, then the goroutine that dials is started.
DlConfig ==
    /\ sshPc = "dial_config"
    /\ hostKeyCallback' = MakeConfigCallback(hostKeyCallback)
    /\ dialCh' = "dialing"
    /\ sshPc' = "dial_wait"
    /\ UNCHANGED <<caller, khLoadOk, knownHosts, presentedKey, cfgRetries, clientBackoff,
                   clientRetries, retries, attempt, dialLog, waits, lastErr,
                   sshRet, conns, ctxCancelled, cmdRuns>>

\* Dial 183-186: the goroutine's xssh.Dial ends and its result is sent on
\* the buffered channel, whether or not Dial still waits for it.
DlGoroutine ==
    /\ dialCh = "dialing"
    /\ \E o \in DialOutcomes(hostKeyCallback, knownHosts, presentedKey) :
          /\ dialLog' = Append(dialLog, o)
          /\ dialCh' = o
          /\ conns' = IF o = "ok" THEN Append(conns, NewConn(hostKeyCallback))
                      ELSE conns
    /\ UNCHANGED <<caller, khLoadOk, knownHosts, presentedKey, cfgRetries, clientBackoff,
                   hostKeyCallback, clientRetries, sshPc, retries, attempt,
                   waits, lastErr, sshRet, ctxCancelled, cmdRuns>>

\* Dial 187-192: select on ctx.Done() and the channel.
DlSelect ==
    /\ sshPc = "dial_wait"
    /\ \/ /\ ctxCancelled
          /\ SshReturn("context canceled")
          /\ UNCHANGED dialCh
       \/ /\ dialCh \in {"ok", "transient", "hostkey"}
          /\ SshReturn(IF dialCh = "ok" THEN "nil" ELSE dialCh)
          /\ dialCh' = "received"
    /\ UNCHANGED <<caller, khLoadOk, knownHosts, presentedKey, cfgRetries, clientBackoff,
                   hostKeyCallback, clientRetries, retries, attempt, dialLog,
                   waits, lastErr, conns, ctxCancelled, cmdRuns>>

\* The caller's context is cancelled while the operation runs.
Cancel ==
    /\ sshPc \in {"rc_select", "rc_dial", "rc_session", "rc_backoff", "dial_wait"}
    /\ ~ctxCancelled
    /\ ctxCancelled' = TRUE
    /\ UNCHANGED <<caller, khLoadOk, knownHosts, presentedKey, cfgRetries, clientBackoff,
                   hostKeyCallback, clientRetries, sshPc, retries, attempt,
                   dialLog, waits, lastErr, sshRet, conns, cmdRuns, dialCh>>

\* ===================================================================
\* gaxx-agent: main and the /v0/exec and /v0/heartbeat handlers
\* ===================================================================

Tokens == {"t1", "t2"}

\* Values of the Authorization and X-Auth-Token headers (absent reads as "").
AuthHeaders == {"", "t1"} \cup {"Bearer " \o t : t \in Tokens}
XAuthHeaders == {""} \cup Tokens

\* What the requested command does when left alone: exit 0, exit with its
\* own non-zero code, or fail to launch.
Commands == {"succeeds", "fails", "missing"}

\* ExecRequest as decoded from the body: timeout_seconds, and how long and
\* how the command runs.
ExecBodies ==
    [kind : {"exec"}, timeout : 0..MaxTimeout, dur : 0..MaxDur, cmd : Commands]

Malformed == [kind |-> "malformed", timeout |-> 0, dur |-> 0, cmd |-> "missing"]

Requests ==
    [path : {"/v0/exec", "/v0/heartbeat"}, auth : AuthHeaders, xauth : XAuthHeaders,
     cert : {"none", "valid", "untrusted"}, body : ExecBodies \cup {Malformed}]

NoRequest ==
    [path |-> "none", auth |-> "", xauth |-> "", cert |-> "none", body |-> Malformed]

\* What the handler wrote: the status, the exit_code of an ExecResponse, and
\* which body: a HeartbeatResponse, an ExecResponse, or http.Error's text.
NoResponse ==
    [status |-> 0, exit_code |-> 0, body |-> "none", stdout |-> "", stderr |-> ""]

\* A response that is no ExecResponse.
Written(status, body) ==
    [status |-> status, exit_code |-> 0, body |-> body, stdout |-> "", stderr |-> ""]

\* "resp := ExecResponse{Stdout: string(out), Stderr: "", ...}", encoded with
\* the implicit status 200.
ExecResponse(out, code) ==
    [status |-> 200, exit_code |-> code, body |-> "exec", stdout |-> out,
     stderr |-> ""]

\* Variant: main serves with ListenAndServeTLS when mutual TLS is required.
MainListenModeMTLS(requireMTLS) == IF requireMTLS THEN "mtls" ELSE "plain"

\* gaxx-agent main: "srv.ListenAndServe(addr)" whatever the environment
\* holds; LoadMTLSConfig and ListenAndServeTLS are never called.
MainListenMode(requireMTLS) == "plain"

\* The listener: plain HTTP takes every connection; a TLS listener configured
\* with RequireAndVerifyClientCert takes only a certificate signed by the CA.
ConnAccepted(mode, cert) ==
    \/ mode = "plain"
    \/ mode = "tls"
    \/ mode = "mtls" /\ cert = "valid"

\* Variant: "||" in place of "&&", both headers must carry the token.
UnauthorizedEither(tok, auth, x) ==
    tok # "" /\ (auth # "Bearer " \o tok \/ x # tok)

\* "if tok != "" { if auth != "Bearer "+tok && x != tok { 401 } }"
Unauthorized(tok, auth, x) ==
    tok # "" /\ auth # "Bearer " \o tok /\ x # tok

\* Variant: every body decodes, a malformed one as the zero ExecRequest.
DecodeNeverFails(body) == FALSE

\* "if err := json.NewDecoder(r.Body).Decode(&req); err != nil"
DecodeFails(body) == body.kind = "malformed"

\* No deadline.
NoDeadline == -1

\* Variant: the command runs under the request context alone.
NoTimeoutContext(t) == NoDeadline

\* "if req.Timeout > 0 { ctx, cancel = context.WithTimeout(ctx, Timeout s) }"
ExecDeadline(t) == IF t > 0 THEN t ELSE NoDeadline

\* exit.ExitCode() of a child killed by the context's signal, or 1 when the
\* error is no *exec.ExitError.
KilledExitCodes == {-1, 1}

\* What the child writes to its standard output and to its standard error,
\* and the status it exits with.
ChildStdout(cmd) == IF cmd = "succeeds" THEN "output" ELSE ""
ChildStderr(cmd) == IF cmd = "fails" THEN "error output" ELSE ""
ChildExitStatus(cmd) == IF cmd = "fails" THEN 3 ELSE 0

\* The error of exec.Cmd for a command that cannot be launched.
LaunchErrorText == "executable file not found"

\* cmd.CombinedOutput: both streams of the child go to one buffer; nothing
\* when the command was not launched.
CombinedOutput(cmd) ==
    IF cmd = "missing" THEN "" ELSE ChildStdout(cmd) \o ChildStderr(cmd)

\* The err of CombinedOutput: nil, an *exec.ExitError, or another error.
WaitError(cmd) ==
    CASE cmd = "succeeds" -> "nil"
      [] cmd = "fails" -> "ExitError"
      [] OTHER -> "other"

\* Variant: every error gives exit code 1.
ExitCodeOneOnError(cmd) == IF WaitError(cmd) = "nil" THEN 0 ELSE 1

\* Lines 95-102: the exit code of the response for a command that ended by
\* itself or could not be launched.
ExitCodeOf(cmd) ==
    CASE WaitError(cmd) = "nil" -> 0
      [] WaitError(cmd) = "ExitError" -> ChildExitStatus(cmd)
      [] OTHER -> 1

IdleAgent ==
    /\ agentToken = ""
    /\ mtlsRequired = FALSE
    /\ listenMode = "none"
    /\ agPc = "idle"
    /\ req = NoRequest
    /\ proc = "none"
    /\ elapsed = 0
    /\ resp = NoResponse
    /\ procStarts = 0

\* The agent's environment: GAXX_AGENT_TOKEN, and GAXX_AGENT_REQUIRE_MTLS=true
\* with certificate, key and client CA set.
StartAgent ==
    /\ agentToken \in {""} \cup Tokens
    /\ mtlsRequired \in BOOLEAN
    /\ listenMode = "none"
    /\ agPc = "boot"
    /\ req = NoRequest
    /\ proc = "none"
    /\ elapsed = 0
    /\ resp = NoResponse
    /\ procStarts = 0

\* main 69-87: the server is started.
AgentMain ==
    /\ agPc = "boot"
    /\ listenMode' = MainListenMode(mtlsRequired)
    /\ agPc' = "listening"
    /\ UNCHANGED <<agentToken, mtlsRequired, req, proc, elapsed, resp, procStarts>>

\* A client connects and sends a request.
Receive ==
    /\ agPc = "listening"
    /\ \E r \in Requests :
          /\ ConnAccepted(listenMode, r.cert)
          /\ req' = r
    /\ agPc' = "received"
    /\ UNCHANGED <<agentToken, mtlsRequired, listenMode, proc, elapsed, resp,
                   procStarts>>

\* Lines 22-40: the heartbeat handler answers 200.
Heartbeat ==
    /\ agPc = "received"
    /\ req.path = "/v0/heartbeat"
    /\ resp' = Written(200, "heartbeat")
    /\ agPc' = "responded"
    /\ UNCHANGED <<agentToken, mtlsRequired, listenMode, req, proc, elapsed,
                   procStarts>>

\* Lines 41-89: the token check, the decoding, the context, and the start
\* of the command by CombinedOutput.
ExecBegin ==
    /\ agPc = "received"
    /\ req.path = "/v0/exec"
    /\ IF Unauthorized(agentToken, req.auth, req.xauth)
       THEN /\ resp' = Written(401, "text")
            /\ agPc' = "responded"
            /\ UNCHANGED <<proc, elapsed, procStarts>>
       ELSE IF DecodeFails(req.body)
       THEN /\ resp' = Written(400, "text")
            /\ agPc' = "responded"
            /\ UNCHANGED <<proc, elapsed, procStarts>>
       ELSE IF req.body.cmd = "missing"
       THEN /\ resp' = ExecResponse(CombinedOutput(req.body.cmd),
                                     ExitCodeOf(req.body.cmd))
            /\ agPc' = "responded"
            /\ UNCHANGED <<proc, elapsed, procStarts>>
       ELSE /\ proc' = "running"
            /\ procStarts' = procStarts + 1
            /\ elapsed' = 0
            /\ agPc' = "waiting"
            /\ UNCHANGED resp
    /\ UNCHANGED <<agentToken, mtlsRequired, listenMode, req>>

\* One second passes while the command runs: it cannot run longer than it
\* takes, nor past the deadline of its context.
Tick ==
    /\ agPc = "waiting"
    /\ proc = "running"
    /\ elapsed < req.body.dur
    /\ elapsed # ExecDeadline(req.body.timeout)
    /\ elapsed' = elapsed + 1
    /\ UNCHANGED <<agentToken, mtlsRequired, listenMode, agPc, req, proc, resp,
                   procStarts>>

\* Lines 89-122: the command ends by itself; the response carries its code.
ExecFinish ==
    /\ agPc = "waiting"
    /\ proc = "running"
    /\ elapsed = req.body.dur
    /\ proc' = "exited"
    /\ resp' = ExecResponse(CombinedOutput(req.body.cmd), ExitCodeOf(req.body.cmd))
    /\ agPc' = "responded"
    /\ UNCHANGED <<agentToken, mtlsRequired, listenMode, req, elapsed, procStarts>>

\* Lines 80, 89-122: the context's deadline passes, exec.CommandContext kills
\* the child, CombinedOutput returns the error and what the child had
\* written by then.
ExecTimeout ==
    /\ agPc = "waiting"
    /\ proc = "running"
    /\ elapsed = ExecDeadline(req.body.timeout)
    /\ proc' = "killed"
    /\ \E code \in KilledExitCodes, out \in {"", CombinedOutput(req.body.cmd)} :
          resp' = ExecResponse(out, code)
    /\ agPc' = "responded"
    /\ UNCHANGED <<agentToken, mtlsRequired, listenMode, req, elapsed, procStarts>>

\* ===================================================================
\* core.ChunkInputs
\* ===================================================================

Items == {"a", "b", "c", "d", "e"}

\* Lists of at most n items.
ItemLists(n) == UNION {[1..k -> Items] : k \in 0..n}

\* Variant: the clamp is replaced by "end = len(inputs)".
ChunkEndAlwaysLen(i, size, n) == n

\* "end := i + chunkSize; if end > len(inputs) { end = len(inputs) }"
ChunkEnd(i, size, n) == IF i + size > n THEN n ELSE i + size

RECURSIVE ChunkLoop(_, _, _, _)
\* "for i := 0; i < len(inputs); i += chunkSize { ... append(chunks,
\* inputs[i:end]) }" from index i on, chunks being what was appended so far.
ChunkLoop(inputs, size, i, chunks) ==
    IF i < Len(inputs)
    THEN ChunkLoop(inputs, size, i + size,
                   Append(chunks, SubSeq(inputs, i + 1, ChunkEnd(i, size, Len(inputs)))))
    ELSE chunks

\* Variant: a chunk size <= 0 yields no chunk at all.
ChunkInputsNoSingle(inputs, size) ==
    IF size <= 0 THEN <<>> ELSE ChunkLoop(inputs, size, 0, <<>>)

\* ChunkInputs: one chunk holding everything when chunkSize <= 0, else the
\* loop; a nil result is the empty list of chunks.
ChunkInputs(inputs, size) ==
    IF size <= 0 THEN <<inputs>> ELSE ChunkLoop(inputs, size, 0, <<>>)

IdleChunk ==
    /\ ciInputs = <<>>
    /\ ciSize = 0
    /\ ciChunks = <<>>
    /\ ciPc = "idle"

StartChunk ==
    /\ ciInputs \in ItemLists(MaxItems)
    /\ ciSize \in -1..MaxChunkSize
    /\ ciChunks = <<>>
    /\ ciPc = "called"

\* One call of ChunkInputs.
ChunkInputsCall ==
    /\ ciPc = "called"
    /\ ciChunks' = ChunkInputs(ciInputs, ciSize)
    /\ ciPc' = "returned"
    /\ UNCHANGED <<ciInputs, ciSize>>
\* ===================================================================
\* executeTaskOnFleet: the chunks and what each node is sent.  The body of
\* a goroutine is one step here; its interleavings with the semaphore, the
\* mutex and the WaitGroup are those of SpecFleet.
\* ===================================================================

\* The lines of the input files: n distinct lines, named by their number.
InputLines(n) == [i \in 1..n |-> i]

\* How executeViaAgent ends: a 200 answer with exit code 0 or another code,
\* or an error: client.Do fails, the status is not 200, the body does not
\* decode.
TransportErrors == {"refused", "status", "decode"}
AgentOutcomes == {"exit0", "exitN"} \cup TransportErrors

\* Variant: past the last chunk every node is given the last chunk.
ChunkIndexClamped(i, c) == IF i < c THEN i ELSE c - 1

\* Variant: the chunks are handed out from the last one down.
ChunkIndexFromLast(i, c) == c - 1 - (i % c)

\* "chunkIdx := i % len(inputChunks)"
ChunkIndex(i, c) == i % c

\* The command the agent runs for each outcome of a 200 answer.
CommandOf(o) == IF o = "exit0" THEN "succeeds" ELSE "fails"

\* executeViaAgent 663-668: the nodeResult copied from the agent's response.
FromExecResponse(r) == [ExitCode |-> r.exit_code, Stderr |-> r.stderr]

\* executeOnNode: the agent's reply when err == nil, else exit code 1 with
\* "Agent execution failed: ..." as Stderr.
ExecuteOnNodeResult(o) ==
    IF o \in TransportErrors
    THEN TransportFailure
    ELSE FromExecResponse(ExecResponse(CombinedOutput(CommandOf(o)),
                                       ExitCodeOf(CommandOf(o))))

\* Line 553: "return nil", whatever the counts.
RunError(res) == "nil"

\* Lines 540-551, "Failed outputs": the Stderr of every result with a
\* non-zero exit code is printed, nothing for the others.
FailedOutputs(res) ==
    [g \in DOMAIN res |->
        IF res[g].ExitCode # 0 THEN res[g].Stderr ELSE "not printed"]

\* Variant: after a transport error the command is run over SSH.
SshFallbackOnError(o) == IF o \in TransportErrors THEN 1 ELSE 0

\* executeOnNode after the agent's error: counters and the failed result,
\* no call into the ssh package.
SshFallbackRuns(o) == 0

\* Variant: the request is sent once more after a transport error.
ExecRequestsRetried(o, chunk) ==
    IF o \in TransportErrors THEN <<chunk, chunk>> ELSE <<chunk>>

\* executeViaAgent lines 636-649: the request is built and handed to
\* client.Do once; every outcome returns from there.
ExecRequests(o, chunk) == <<chunk>>

IdleDispatch ==
    /\ dN = 0
    /\ dHaveInputs = FALSE
    /\ dReadOk = TRUE
    /\ dAllInputs = <<>>
    /\ dChunkSize = 0
    /\ inputChunks = <<>>
    /\ dPc = "idle"
    /\ dI = 0
    /\ dChunkArg = <<>>
    /\ dAgent = <<>>
    /\ dSent = <<>>
    /\ dSshRuns = <<>>
    /\ dResult = <<>>
    /\ dReport = <<>>
    /\ dRet = "pending"

\* runFleetCommand and runScanCommand reject an empty fleet; without input
\* files nothing is read.
StartDispatch ==
    /\ dN \in 1..MaxDispNodes
    /\ dHaveInputs \in BOOLEAN
    /\ dReadOk \in BOOLEAN
    /\ dHaveInputs = FALSE => dReadOk
    /\ dAllInputs \in {InputLines(n) : n \in 0..MaxDispLines}
    /\ dHaveInputs = FALSE => dAllInputs = <<>>
    /\ dChunkSize \in 0..MaxDispChunkSize
    /\ inputChunks = <<>>
    /\ dPc = "start"
    /\ dI = 0
    /\ dChunkArg = [g \in 1..dN |-> [idx |-> -1, chunk |-> <<>>]]
    /\ dAgent = [g \in 1..dN |-> "none"]
    /\ dSent = [g \in 1..dN |-> <<>>]
    /\ dSshRuns = [g \in 1..dN |-> 0]
    /\ dResult = [g \in 1..dN |-> NoResult]
    /\ dReport = <<>>
    /\ dRet = "pending"

\* Lines 456-470: inputChunks is built, or loadInputFiles fails.
DLoadChunks ==
    /\ dPc = "start"
    /\ IF dHaveInputs /\ ~dReadOk
       THEN /\ dRet' = "load inputs"
            /\ dPc' = "returned"
            /\ UNCHANGED inputChunks
       ELSE /\ inputChunks' =
                 IF dHaveInputs
                 THEN IF dChunkSize > 0
                      THEN ChunkInputs(dAllInputs, dChunkSize)
                      ELSE <<dAllInputs>>
                 ELSE << <<>> >>
            /\ dPc' = "loop"
            /\ UNCHANGED dRet
    /\ UNCHANGED <<dN, dHaveInputs, dReadOk, dAllInputs, dChunkSize, dI, dChunkArg,
                   dAgent, dSent, dSshRuns, dResult, dReport>>

\* Lines 481-503, one iteration: the chunk of node i is chosen and its
\* goroutine is started; the modulo panics when there is no chunk.
DSpawn ==
    /\ dPc = "loop"
    /\ dI < dN
    /\ IF Len(inputChunks) = 0
       THEN /\ dPc' = "panicked"
            /\ UNCHANGED <<dI, dChunkArg>>
       ELSE /\ dChunkArg' =
                 [dChunkArg EXCEPT ![dI + 1] =
                    [idx |-> ChunkIndex(dI, Len(inputChunks)),
                     chunk |-> inputChunks[ChunkIndex(dI, Len(inputChunks)) + 1]]]
            /\ dI' = dI + 1
            /\ UNCHANGED dPc
    /\ UNCHANGED <<dN, dHaveInputs, dReadOk, dAllInputs, dChunkSize, inputChunks,
                   dAgent, dSent, dSshRuns, dResult, dReport, dRet>>

\* Line 505: the loop is over, wg.Wait.
DEndLoop ==
    /\ dPc = "loop"
    /\ dI = dN
    /\ dPc' = "waiting"
    /\ UNCHANGED <<dN, dHaveInputs, dReadOk, dAllInputs, dChunkSize, inputChunks,
                   dI, dChunkArg, dAgent, dSent, dSshRuns, dResult, dReport, dRet>>

\* Lines 486-494 and executeOnNode: the goroutine of node g sends its chunk
\* in one exec request and records the result.
DWork(g) ==
    /\ dPc \in {"loop", "waiting"}
    /\ g <= dI
    /\ dAgent[g] = "none"
    /\ \E o \in AgentOutcomes :
          /\ dAgent' = [dAgent EXCEPT ![g] = o]
          /\ dSshRuns' = [dSshRuns EXCEPT ![g] = @ + SshFallbackRuns(o)]
          /\ dResult' = [dResult EXCEPT ![g] = ExecuteOnNodeResult(o)]
          /\ dSent' = [dSent EXCEPT ![g] = @ \o ExecRequests(o, dChunkArg[g].chunk)]
    /\ UNCHANGED <<dN, dHaveInputs, dReadOk, dAllInputs, dChunkSize, inputChunks,
                   dPc, dI, dChunkArg, dReport, dRet>>

\* Lines 505-553: every goroutine is done; the summary and the failed
\* outputs are printed and nil is returned.
DReturn ==
    /\ dPc = "waiting"
    /\ \A g \in 1..dN : dAgent[g] # "none"
    /\ dReport' = FailedOutputs(dResult)
    /\ dRet' = RunError(dResult)
    /\ dPc' = "returned"
    /\ UNCHANGED <<dN, dHaveInputs, dReadOk, dAllInputs, dChunkSize, inputChunks,
                   dI, dChunkArg, dAgent, dSent, dSshRuns, dResult>>
\* ===================================================================
\* uploadFilesToFleet
\* ===================================================================

NoError == [err |-> "nil", node |-> 0]

\* "fmt.Errorf("upload to %s: %w", node.Name, err)"
UploadError(g) == [err |-> "upload to", node |-> g]

\* "for err := range errChan { return err }; return nil"
FirstError(ch) == IF ch = <<>> THEN NoError ELSE UploadError(Head(ch))

IdleUpload ==
    /\ upN = 0
    /\ upPc = "idle"
    /\ upI = 0
    /\ upWg = 0
    /\ upNode = <<>>
    /\ errChan = <<>>
    /\ upRet = [err |-> "pending", node |-> 0]

\* runScanCommand rejects an empty fleet.
StartUpload ==
    /\ upN \in 1..MaxUpNodes
    /\ upPc = "loop"
    /\ upI = 0
    /\ upWg = 0
    /\ upNode = [g \in 1..upN |-> "unborn"]
    /\ errChan = <<>>
    /\ upRet = [err |-> "pending", node |-> 0]

\* Lines 757-765, one iteration: wg.Add(1) and the goroutine is started.
UpSpawn ==
    /\ upPc = "loop"
    /\ upI < upN
    /\ upWg' = upWg + 1
    /\ upNode' = [upNode EXCEPT ![upI + 1] = "running"]
    /\ upI' = upI + 1
    /\ UNCHANGED <<upN, upPc, errChan, upRet>>

\* Line 767: the loop is over, wg.Wait.
UpEndLoop ==
    /\ upPc = "loop"
    /\ upI = upN
    /\ upPc' = "waiting"
    /\ UNCHANGED <<upN, upI, upWg, upNode, errChan, upRet>>

\* Lines 759-764: uploadFilesToNode returns; its error is sent on errChan,
\* which has room for one error per node; wg.Done.
UpWork(g) ==
    /\ upNode[g] = "running"
    /\ \/ /\ upNode' = [upNode EXCEPT ![g] = "ok"]
          /\ UNCHANGED errChan
       \/ /\ upNode' = [upNode EXCEPT ![g] = "failed"]
          /\ errChan' = Append(errChan, g)
    /\ upWg' = upWg - 1
    /\ UNCHANGED <<upN, upPc, upI, upRet>>

\* Lines 767-775: wg.Wait returns, the channel is closed, and the first
\* error received from it, if any, is returned.
UpReturn ==
    /\ upPc = "waiting"
    /\ upWg = 0
    /\ upRet' = FirstError(errChan)
    /\ upPc' = "returned"
    /\ UNCHANGED <<upN, upI, upWg, upNode, errChan>>

\* ===================================================================
\* The known-hosts file: internal/ssh/knownhosts.go and "gaxx init"
\* ===================================================================

KhHosts == {"h1", "h2"}

\* The authorized-key texts handed to AppendKnownHost: two well-formed
\* keys and one text xssh.ParseAuthorizedKey rejects.
AuthorizedKeyTexts == Keys \cup {"garbage"}

\* xssh.ParseAuthorizedKey (knownhosts.go line 32): the key, or "invalid".
ParseAuthorizedKey(text) == IF text \in Keys THEN text ELSE "invalid"

\* knownhosts.Line (line 36): one line per (host, key).
KnownHostsLine(h, k) == <<h, k>>

\* os.WriteFile(path, []byte(""), ...): the file exists and is empty,
\* whatever it held before.
WriteEmptyFile == <<>>

\* Lines 19-23 of EnsureKnownHostsFile: the file is written only when
\* os.Stat reports that it does not exist.
EnsuredEntries(exists, entries) == IF exists THEN entries ELSE WriteEmptyFile

\* Lines 899-904 of initializeGaxx: the file is written when it does not
\* exist or when --force is given.
InitEntries(exists, entries, force) ==
    IF ~exists \/ force THEN WriteEmptyFile ELSE entries

NotLoaded == [loaded |-> FALSE, db |-> {}]

\* knownhosts.New(path): the callback holds the entries the file has when
\* it is read.
LoadedFrom(entries) == [loaded |-> TRUE, db |-> Range(entries)]

\* The strict callback accepts a recorded (host, key) pair only.
StrictAccepts(db, h, k) == <<h, k>> \in db

\* Variant: a host that is not recorded is recorded when it is first met.
TrustOnFirstUse(entries, h, k, accepted) ==
    IF accepted THEN entries ELSE Append(entries, KnownHostsLine(h, k))

\* The file after the handshake of Dial or RunCommand ran the callback:
\* neither the callback nor sftp.go writes to it.
EntriesAfterDial(entries, h, k, accepted) == entries

IdleKnownHosts ==
    /\ khExists = FALSE
    /\ khEntries = <<>>
    /\ khBefore = <<>>
    /\ khOp = "none"
    /\ khErr = "nil"
    /\ khLoaded = NotLoaded

StartKnownHosts == IdleKnownHosts

\* EnsureKnownHostsFile, lines 14-25.
KhEnsure ==
    /\ khBefore' = khEntries
    /\ khEntries' = EnsuredEntries(khExists, khEntries)
    /\ khExists' = TRUE
    /\ khOp' = "ensure"
    /\ khErr' = "nil"
    /\ UNCHANGED khLoaded

\* AppendKnownHost, lines 28-46: the file is ensured, the key is parsed (an
\* error returns before the file is opened), and the line is written at the
\* end of the file opened with O_APPEND.
KhAppend(h, text) ==
    /\ Len(khEntries) < MaxKhEntries
    /\ khBefore' = khEntries
    /\ khExists' = TRUE
    /\ khOp' = "append"
    /\ UNCHANGED khLoaded
    /\ IF ParseAuthorizedKey(text) = "invalid"
       THEN /\ khEntries' = EnsuredEntries(khExists, khEntries)
            /\ khErr' = "parse authorized key"
       ELSE /\ khEntries' = Append(EnsuredEntries(khExists, khEntries),
                                   KnownHostsLine(h, ParseAuthorizedKey(text)))
            /\ khErr' = "nil"

\* LoadKnownHostsCallback, lines 49-54: the file is ensured and read.
KhLoad ==
    /\ khBefore' = khEntries
    /\ khEntries' = EnsuredEntries(khExists, khEntries)
    /\ khExists' = TRUE
    /\ khOp' = "load"
    /\ khErr' = "nil"
    /\ khLoaded' = LoadedFrom(EnsuredEntries(khExists, khEntries))

\* Dial (sftp.go 171-193) and RunCommand (138) with the loaded callback:
\* the host h presents the key k and the handshake runs the callback.
KhDial(h, k) ==
    /\ khLoaded.loaded
    /\ khBefore' = khEntries
    /\ khEntries' = EntriesAfterDial(khEntries, h, k, StrictAccepts(khLoaded.db, h, k))
    /\ khOp' = "dial"
    /\ khErr' = IF StrictAccepts(khLoaded.db, h, k) THEN "nil" ELSE "hostkey"
    /\ UNCHANGED <<khExists, khLoaded>>

\* initializeGaxx, lines 897-904, called by "gaxx init" with its --force
\* flag.
KhInit(force) ==
    /\ khBefore' = khEntries
    /\ khEntries' = InitEntries(khExists, khEntries, force)
    /\ khExists' = TRUE
    /\ khOp' = IF force THEN "init --force" ELSE "init"
    /\ khErr' = "nil"
    /\ UNCHANGED khLoaded

\* ===================================================================
\* The environment of a task: runFleetCommand, runScanCommand and
\* executeViaAgent.  A string is a sequence of characters.
\* ===================================================================

EnvKeys == {<<"A">>, <<"B">>}

\* A value may itself hold the character "=".
EnvValues == {<<"1">>, <<"=", "2">>}

\* map[string]string: the maps from some of the keys to values.
EnvMaps == UNION {[D -> EnvValues] : D \in SUBSET EnvKeys}

EmptyEnv == [k \in {} |-> <<>>]

EnvCommands == {"run module", "run command", "scan"}

\* The same loop with the module's entries written last.
MergeEnvTaskWins(declared, given) ==
    [k \in DOMAIN declared \cup DOMAIN given |->
        IF k \in DOMAIN declared THEN declared[k] ELSE given[k]]

\* Lines 404-406 and 730-732: "for k, v := range envVars { task.Env[k] = v }".
MergeEnv(declared, given) ==
    [k \in DOMAIN declared \cup DOMAIN given |->
        IF k \in DOMAIN given THEN given[k] ELSE declared[k]]

\* Line 631: fmt.Sprintf("%s=%s", k, v).
EnvEntry(k, v) == k \o <<"=">> \o v

\* The orders in which a range over a map with key set S may visit it.
RangeOrders(S) ==
    {o \in [1..Cardinality(S) -> S] :
        \A i, j \in 1..Cardinality(S) : i # j => o[i] # o[j]}

IdleEnv ==
    /\ envCmd = "none"
    /\ declaredEnv = EmptyEnv
    /\ envVars = EmptyEnv
    /\ taskEnv = EmptyEnv
    /\ execReqEnv = <<>>
    /\ envPc = "idle"

\* A direct command has no task module; loadTaskModule (lines 434-436)
\* turns a module without env: section into one with an empty map.
StartEnv ==
    /\ envCmd \in EnvCommands
    /\ declaredEnv \in (IF envCmd = "run command" THEN {EmptyEnv} ELSE EnvMaps)
    /\ envVars \in EnvMaps
    /\ taskEnv = EmptyEnv
    /\ execReqEnv = <<>>
    /\ envPc = "start"

\* runFleetCommand lines 398-417 and runScanCommand lines 724-732.
EnvBuildTask ==
    /\ envPc = "start"
    /\ taskEnv' = IF envCmd = "run command" THEN envVars
                  ELSE MergeEnv(declaredEnv, envVars)
    /\ envPc' = "task"
    /\ UNCHANGED <<envCmd, declaredEnv, envVars, execReqEnv>>

\* executeViaAgent lines 628-639: the map is turned into the slice of the
\* exec request, in the order the range visits it.
EnvSend ==
    /\ envPc = "task"
    /\ \E o \in RangeOrders(DOMAIN taskEnv) :
          execReqEnv' = [i \in DOMAIN o |-> EnvEntry(o[i], taskEnv[o[i]])]
    /\ envPc' = "sent"
    /\ UNCHANGED <<envCmd, declaredEnv, envVars, taskEnv>>

\* ===================================================================
\* core.Metrics: RecordRequest, RecordError, GetStats.  An increment is a
\* read of the field followed by a write of it.
\* ===================================================================

MetricCalls ==
    [kind : {"RecordRequest"}, d : 1..MaxMetricDuration]
        \cup {[kind |-> "RecordError", d |-> 0]}

NoStats == [taken |-> FALSE, requests |-> 0, errors |-> 0, duration |-> 0,
            returned |-> {}]

\* A Lock that never waits.
LockNeverWaits(holder) == TRUE

\* m.mu.Lock(): the caller goes on once no other goroutine holds the mutex.
LockAcquirable(holder) == holder = 0

IdleMetrics ==
    /\ mCalls = <<>>
    /\ mPc = <<>>
    /\ mReg = <<>>
    /\ mMu = 0
    /\ requests = 0
    /\ errors = 0
    /\ duration = 0
    /\ mStats = NoStats

\* NewMetrics, and the calls the goroutines are about to make.
StartMetrics ==
    /\ \E n \in 1..MaxMetricCalls : mCalls \in [1..n -> MetricCalls]
    /\ mPc = [g \in DOMAIN mCalls |-> "call"]
    /\ mReg = [g \in DOMAIN mCalls |-> 0]
    /\ mMu = 0
    /\ requests = 0
    /\ errors = 0
    /\ duration = 0
    /\ mStats = NoStats

\* Lines 126 and 134: m.mu.Lock().
MLock(g) ==
    /\ mPc[g] = "call"
    /\ LockAcquirable(mMu)
    /\ mMu' = g
    /\ mPc' = [mPc EXCEPT ![g] = "locked"]
    /\ UNCHANGED <<mCalls, mReg, requests, errors, duration, mStats>>

\* Lines 127 and 135: the read half of m.requests++ or m.errors++.
MReadCount(g) ==
    /\ mPc[g] = "locked"
    /\ mReg' = [mReg EXCEPT ![g] =
                   IF mCalls[g].kind = "RecordRequest" THEN requests ELSE errors]
    /\ mPc' = [mPc EXCEPT ![g] = "count read"]
    /\ UNCHANGED <<mCalls, mMu, requests, errors, duration, mStats>>

\* The write half.
MWriteCount(g) ==
    /\ mPc[g] = "count read"
    /\ IF mCalls[g].kind = "RecordRequest"
       THEN requests' = mReg[g] + 1 /\ UNCHANGED errors
       ELSE errors' = mReg[g] + 1 /\ UNCHANGED requests
    /\ mPc' = [mPc EXCEPT ![g] =
                  IF mCalls[g].kind = "RecordRequest" THEN "counted" ELSE "updated"]
    /\ UNCHANGED <<mCalls, mReg, mMu, duration, mStats>>

\* Line 128: the read half of m.duration += duration.
MReadDuration(g) ==
    /\ mPc[g] = "counted"
    /\ mReg' = [mReg EXCEPT ![g] = duration]
    /\ mPc' = [mPc EXCEPT ![g] = "duration read"]
    /\ UNCHANGED <<mCalls, mMu, requests, errors, duration, mStats>>

\* The write half.
MWriteDuration(g) ==
    /\ mPc[g] = "duration read"
    /\ duration' = mReg[g] + mCalls[g].d
    /\ mPc' = [mPc EXCEPT ![g] = "updated"]
    /\ UNCHANGED <<mCalls, mReg, mMu, requests, errors, mStats>>

\* Lines 129 and 136: m.mu.Unlock(), and the call returns.
MUnlock(g) ==
    /\ mPc[g] = "updated"
    /\ mMu' = IF mMu = g THEN 0 ELSE mMu
    /\ mPc' = [mPc EXCEPT ![g] = "returned"]
    /\ UNCHANGED <<mCalls, mReg, requests, errors, duration, mStats>>

\* GetStats, lines 140-144: under the read lock, which waits for a writer
\* holding the mutex, the three fields are read.
GetStats ==
    /\ ~mStats.taken
    /\ mMu = 0
    /\ mStats' = [taken |-> TRUE, requests |-> requests, errors |-> errors,
                  duration |-> duration,
                  returned |-> {g \in DOMAIN mPc : mPc[g] = "returned"}]
    /\ UNCHANGED <<mCalls, mPc, mReg, mMu, requests, errors, duration>>

\* ===================================================================
\* Gaxx.ExecuteTasks (internal/core/gaxx.go)
\* ===================================================================

\* The goroutines the two loops start: one per task and instance.
ExTotal == exTasks * exInstances

\* Line 205, "sem <- struct{}{}" on make(chan struct{}, Concurrency): the
\* send goes through when the buffer has room.  No goroutine receives
\* before its own send went through, so a channel of capacity 0 never has a
\* receiver waiting.
SemSendable(held, capacity) == held < capacity

\* Lines 224-227.
ExecuteTasksError(errs) ==
    IF Len(errs) > 0 THEN "task execution failed" ELSE "nil"

IdleExec ==
    /\ exConcurrency = 0
    /\ exTasks = 0
    /\ exInstances = 0
    /\ exPc = "idle"
    /\ exI = 0
    /\ exSem = 0
    /\ exWg = 0
    /\ exW = <<>>
    /\ exErrors = <<>>
    /\ exRet = "pending"

\* Lines 189-198: Concurrency 0 is the value of a Config whose field was
\* not set.
StartExec ==
    /\ exConcurrency \in 0..MaxExConcurrency
    /\ exTasks \in 1..MaxExWorkers
    /\ exInstances \in 1..MaxExWorkers
    /\ exTasks * exInstances <= MaxExWorkers
    /\ exPc = "loop"
    /\ exI = 0
    /\ exSem = 0
    /\ exWg = 0
    /\ exW = <<>>
    /\ exErrors = <<>>
    /\ exRet = "pending"

\* Lines 200-203: wg.Add(1) and the go statement.
ExSpawn ==
    /\ exPc = "loop"
    /\ exI < ExTotal
    /\ exWg' = exWg + 1
    /\ exW' = Append(exW, "send")
    /\ exI' = exI + 1
    /\ UNCHANGED <<exConcurrency, exTasks, exInstances, exPc, exSem, exErrors, exRet>>

\* Lines 200-222: both loops are over.
ExEndLoop ==
    /\ exPc = "loop"
    /\ exI = ExTotal
    /\ exPc' = "waiting"
    /\ UNCHANGED <<exConcurrency, exTasks, exInstances, exI, exSem, exWg, exW,
                   exErrors, exRet>>

\* Line 205: sem <- struct{}{}.
ExAcquire(w) ==
    /\ exW[w] = "send"
    /\ SemSendable(exSem, exConcurrency)
    /\ exSem' = exSem + 1
    /\ exW' = [exW EXCEPT ![w] = "running"]
    /\ UNCHANGED <<exConcurrency, exTasks, exInstances, exPc, exI, exWg, exErrors,
                   exRet>>

\* Lines 208-218: the command is built and run; an error is appended to
\* errors under the mutex.
ExExecute(w) ==
    /\ exW[w] = "running"
    /\ \/ UNCHANGED exErrors
       \/ exErrors' = Append(exErrors, w)
    /\ exW' = [exW EXCEPT ![w] = "release"]
    /\ UNCHANGED <<exConcurrency, exTasks, exInstances, exPc, exI, exSem, exWg, exRet>>

\* Line 206, run first of the deferred calls: <-sem.
ExRelease(w) ==
    /\ exW[w] = "release"
    /\ exSem' = exSem - 1
    /\ exW' = [exW EXCEPT ![w] = "wgdone"]
    /\ UNCHANGED <<exConcurrency, exTasks, exInstances, exPc, exI, exWg, exErrors,
                   exRet>>

\* Line 204, run last of the deferred calls: wg.Done().
ExWgDone(w) ==
    /\ exW[w] = "wgdone"
    /\ exWg' = exWg - 1
    /\ exW' = [exW EXCEPT ![w] = "done"]
    /\ UNCHANGED <<exConcurrency, exTasks, exInstances, exPc, exI, exSem, exErrors,
                   exRet>>

\* Lines 222-228: wg.Wait returns and the error is built.
ExReturn ==
    /\ exPc = "waiting"
    /\ exWg = 0
    /\ exRet' = ExecuteTasksError(exErrors)
    /\ exPc' = "returned"
    /\ UNCHANGED <<exConcurrency, exTasks, exInstances, exI, exSem, exWg, exW,
                   exErrors>>

\* ===================================================================
\* runScanCommand: uploadFilesToFleet, then executeTaskOnFleet, over the
\* same nodes.
\* ===================================================================

\* Variant: the error of the upload is dropped.
UploadErrorDropped(e) == "nil"

\* Lines 737-739: "if err := uploadFilesToFleet(...); err != nil {
\* return fmt.Errorf("upload files: %w", err) }".
ScanUploadError(e) == IF e.err # "nil" THEN "upload files" ELSE "nil"

IdleScan ==
    /\ scanUploads = FALSE
    /\ scanPc = "idle"
    /\ scanRet = "pending"

StartScan ==
    /\ scanUploads \in BOOLEAN
    /\ scanPc = "start"
    /\ scanRet = "pending"

\* Lines 734-736: files are uploaded first when --upload names any.
ScanBegin ==
    /\ scanPc = "start"
    /\ scanPc' = IF scanUploads THEN "uploading" ELSE "dispatch"
    /\ UNCHANGED <<scanUploads, scanRet>>

\* Lines 737-741: uploadFilesToFleet has returned.
ScanUploaded ==
    /\ scanPc = "uploading"
    /\ upPc = "returned"
    /\ IF ScanUploadError(upRet) # "nil"
       THEN scanRet' = ScanUploadError(upRet) /\ scanPc' = "returned"
       ELSE scanPc' = "dispatch" /\ UNCHANGED scanRet
    /\ UNCHANGED scanUploads

\* Line 749: executeTaskOnFleet has returned and its error is returned.
ScanReturn ==
    /\ scanPc = "dispatch"
    /\ dPc = "returned"
    /\ scanRet' = dRet
    /\ scanPc' = "returned"
    /\ UNCHANGED scanUploads

\* ===================================================================
\* RetryableHTTPClient.Do (internal/providers/registry.go).  The rate
\* limiter and the delays only let time pass.
\* ===================================================================

\* How one c.client.Do ends: a transport error, or a response with a status.
HttpStatuses == {200, 401, 403, 429, 500, 502, 503, 504}

TransportError == [kind |-> "error", status |-> 0]

Response(code) == [kind |-> "response", status |-> code]

\* DefaultRetryConfig: RetryableErrors.
RetryableErrors == {429, 500, 502, 503, 504}

\* shouldRetry, lines 156-163.
ShouldRetryStatus(code) == code \in RetryableErrors

NoHttpReturn == [status |-> 0, err |-> "pending"]

IdleHTTP ==
    /\ hMaxRetries = 0
    /\ hPc = "idle"
    /\ hAttempt = 0
    /\ hLog = <<>>
    /\ hLastErr = "nil"
    /\ hRet = NoHttpReturn

\* Lines 106-109.
StartHTTP ==
    /\ hMaxRetries \in 0..MaxHttpRetries
    /\ hPc = "loop"
    /\ hAttempt = 0
    /\ hLog = <<>>
    /\ hLastErr = "nil"
    /\ hRet = NoHttpReturn

\* Lines 109-132, one iteration in which c.client.Do returns an error: it
\* is kept in lastErr; with attempts left the loop sleeps and continues,
\* else the error is returned.
HttpDoFails ==
    /\ hPc = "loop"
    /\ hAttempt <= hMaxRetries
    /\ hLog' = Append(hLog, TransportError)
    /\ hLastErr' = "transport error"
    /\ IF hAttempt < hMaxRetries
       THEN /\ hAttempt' = hAttempt + 1
            /\ UNCHANGED <<hPc, hRet>>
       ELSE /\ hRet' = [status |-> 0, err |-> "transport error"]
            /\ hPc' = "returned"
            /\ UNCHANGED hAttempt
    /\ UNCHANGED hMaxRetries

\* Lines 109-116 and 134-151, one iteration in which a response arrives: a
\* retryable status with attempts left closes the body, sleeps and
\* continues; every other response is returned with a nil error.
HttpDoAnswers(code) ==
    /\ hPc = "loop"
    /\ hAttempt <= hMaxRetries
    /\ hLog' = Append(hLog, Response(code))
    /\ IF ShouldRetryStatus(code) /\ hAttempt < hMaxRetries
       THEN /\ hAttempt' = hAttempt + 1
            /\ UNCHANGED <<hPc, hRet>>
       ELSE /\ hRet' = [status |-> code, err |-> "nil"]
            /\ hPc' = "returned"
            /\ UNCHANGED hAttempt
    /\ UNCHANGED <<hMaxRetries, hLastErr>>

\* ===================================================================
\* Specifications
\* ===================================================================

InitFleet ==
    /\ InitFleetUpTo(MaxNodes) /\ IdleTransfer /\ IdleSSH /\ IdleAgent
    /\ IdleChunk /\ IdleDispatch /\ IdleUpload /\ IdleKnownHosts /\ IdleEnv
    /\ IdleMetrics /\ IdleExec /\ IdleScan /\ IdleHTTP

NextFleet ==
    \/ Prepare /\ UNCHANGED exceptFleet
    \/ Dispatch /\ UNCHANGED exceptFleet
    \/ EndDispatch /\ UNCHANGED exceptFleet
    \/ (\E g \in NodeIds : Acquire(g)) /\ UNCHANGED exceptFleet
    \/ (\E g \in NodeIds : ExecReturn(g)) /\ UNCHANGED exceptFleet
    \/ (\E g \in NodeIds : Lock(g)) /\ UNCHANGED exceptFleet
    \/ (\E g \in NodeIds : WriteUnlock(g)) /\ UNCHANGED exceptFleet
    \/ (\E g \in NodeIds : Release(g)) /\ UNCHANGED exceptFleet
    \/ (\E g \in NodeIds : WgDone(g)) /\ UNCHANGED exceptFleet
    \/ Join /\ UNCHANGED exceptFleet
    \/ Report /\ UNCHANGED exceptFleet

SpecFleet == InitFleet /\ [][NextFleet]_vars

InitFleetLive ==
    /\ InitFleetUpTo(MaxNodesLive) /\ IdleTransfer /\ IdleSSH /\ IdleAgent
    /\ IdleChunk /\ IdleDispatch /\ IdleUpload /\ IdleKnownHosts /\ IdleEnv
    /\ IdleMetrics /\ IdleExec /\ IdleScan /\ IdleHTTP

\* Go's scheduler runs every runnable goroutine, and each node execution is
\* assumed to return: no enabled step is postponed forever.
SpecFleetLive == InitFleetLive /\ [][NextFleet]_vars /\ WF_vars(NextFleet)

InitTransfer ==
    /\ StartTransfer /\ IdleFleet /\ IdleSSH /\ IdleAgent
    /\ IdleChunk /\ IdleDispatch /\ IdleUpload /\ IdleKnownHosts /\ IdleEnv
    /\ IdleMetrics /\ IdleExec /\ IdleScan /\ IdleHTTP

NextTransfer ==
    \/ TfChecksum /\ UNCHANGED exceptTransfer
    \/ TfConnect /\ UNCHANGED exceptTransfer
    \/ TfSftpMkdir /\ UNCHANGED exceptTransfer
    \/ TfOpenLocal /\ UNCHANGED exceptTransfer
    \/ TfCreateRemote /\ UNCHANGED exceptTransfer
    \/ TfCopy /\ UNCHANGED exceptTransfer
    \/ Corrupt /\ UNCHANGED exceptTransfer
    \/ TfVerify /\ UNCHANGED exceptTransfer

SpecTransfer == InitTransfer /\ [][NextTransfer]_vars

InitSSH ==
    /\ StartSSH /\ IdleFleet /\ IdleTransfer /\ IdleAgent
    /\ IdleChunk /\ IdleDispatch /\ IdleUpload /\ IdleKnownHosts /\ IdleEnv
    /\ IdleMetrics /\ IdleExec /\ IdleScan /\ IdleHTTP

NextSSH ==
    \/ CallScp /\ UNCHANGED exceptSSH
    \/ CallSsh /\ UNCHANGED exceptSSH
    \/ CallTransfer /\ UNCHANGED exceptSSH
    \/ CallApi /\ UNCHANGED exceptSSH
    \/ ExecuteDial /\ UNCHANGED exceptSSH
    \/ ExecuteRun /\ UNCHANGED exceptSSH
    \/ RcConfig /\ UNCHANGED exceptSSH
    \/ RcSelect /\ UNCHANGED exceptSSH
    \/ RcDial /\ UNCHANGED exceptSSH
    \/ RcSession /\ UNCHANGED exceptSSH
    \/ RcBackoff /\ UNCHANGED exceptSSH
    \/ DlConfig /\ UNCHANGED exceptSSH
    \/ DlGoroutine /\ UNCHANGED exceptSSH
    \/ DlSelect /\ UNCHANGED exceptSSH
    \/ Cancel /\ UNCHANGED exceptSSH

SpecSSH == InitSSH /\ [][NextSSH]_vars

InitAgent ==
    /\ StartAgent /\ IdleFleet /\ IdleTransfer /\ IdleSSH
    /\ IdleChunk /\ IdleDispatch /\ IdleUpload /\ IdleKnownHosts /\ IdleEnv
    /\ IdleMetrics /\ IdleExec /\ IdleScan /\ IdleHTTP

NextAgent ==
    \/ AgentMain /\ UNCHANGED exceptAgent
    \/ Receive /\ UNCHANGED exceptAgent
    \/ Heartbeat /\ UNCHANGED exceptAgent
    \/ ExecBegin /\ UNCHANGED exceptAgent
    \/ Tick /\ UNCHANGED exceptAgent
    \/ ExecFinish /\ UNCHANGED exceptAgent
    \/ ExecTimeout /\ UNCHANGED exceptAgent

SpecAgent == InitAgent /\ [][NextAgent]_vars

InitChunk ==
    /\ StartChunk /\ IdleFleet /\ IdleTransfer /\ IdleSSH /\ IdleAgent
    /\ IdleDispatch /\ IdleUpload /\ IdleKnownHosts /\ IdleEnv /\ IdleMetrics
    /\ IdleExec /\ IdleScan /\ IdleHTTP

NextChunk ==
    \/ ChunkInputsCall /\ UNCHANGED exceptChunk

SpecChunk == InitChunk /\ [][NextChunk]_vars

InitDispatch ==
    /\ StartDispatch /\ IdleFleet /\ IdleTransfer /\ IdleSSH /\ IdleAgent
    /\ IdleChunk /\ IdleUpload /\ IdleKnownHosts /\ IdleEnv /\ IdleMetrics
    /\ IdleExec /\ IdleScan /\ IdleHTTP

NextDispatch ==
    \/ DLoadChunks /\ UNCHANGED exceptDispatch
    \/ DSpawn /\ UNCHANGED exceptDispatch
    \/ DEndLoop /\ UNCHANGED exceptDispatch
    \/ (\E g \in 1..dN : DWork(g)) /\ UNCHANGED exceptDispatch
    \/ DReturn /\ UNCHANGED exceptDispatch

SpecDispatch == InitDispatch /\ [][NextDispatch]_vars

InitUpload ==
    /\ StartUpload /\ IdleFleet /\ IdleTransfer /\ IdleSSH /\ IdleAgent
    /\ IdleChunk /\ IdleDispatch /\ IdleKnownHosts /\ IdleEnv /\ IdleMetrics
    /\ IdleExec /\ IdleScan /\ IdleHTTP

NextUpload ==
    \/ UpSpawn /\ UNCHANGED exceptUpload
    \/ UpEndLoop /\ UNCHANGED exceptUpload
    \/ (\E g \in 1..upN : UpWork(g)) /\ UNCHANGED exceptUpload
    \/ UpReturn /\ UNCHANGED exceptUpload

SpecUpload == InitUpload /\ [][NextUpload]_vars

InitKnownHosts ==
    /\ StartKnownHosts /\ IdleFleet /\ IdleTransfer /\ IdleSSH /\ IdleAgent
    /\ IdleChunk /\ IdleDispatch /\ IdleUpload /\ IdleEnv /\ IdleMetrics
    /\ IdleExec /\ IdleScan /\ IdleHTTP

NextKnownHosts ==
    \/ KhEnsure /\ UNCHANGED exceptKnownHosts
    \/ (\E h \in KhHosts, t \in AuthorizedKeyTexts : KhAppend(h, t))
          /\ UNCHANGED exceptKnownHosts
    \/ KhLoad /\ UNCHANGED exceptKnownHosts
    \/ (\E h \in KhHosts, k \in Keys : KhDial(h, k)) /\ UNCHANGED exceptKnownHosts
    \/ (\E force \in BOOLEAN : KhInit(force)) /\ UNCHANGED exceptKnownHosts

SpecKnownHosts == InitKnownHosts /\ [][NextKnownHosts]_vars

InitEnv ==
    /\ StartEnv /\ IdleFleet /\ IdleTransfer /\ IdleSSH /\ IdleAgent
    /\ IdleChunk /\ IdleDispatch /\ IdleUpload /\ IdleKnownHosts /\ IdleMetrics
    /\ IdleExec /\ IdleScan /\ IdleHTTP

NextEnv ==
    \/ EnvBuildTask /\ UNCHANGED exceptEnv
    \/ EnvSend /\ UNCHANGED exceptEnv

SpecEnv == InitEnv /\ [][NextEnv]_vars

InitMetrics ==
    /\ StartMetrics /\ IdleFleet /\ IdleTransfer /\ IdleSSH /\ IdleAgent
    /\ IdleChunk /\ IdleDispatch /\ IdleUpload /\ IdleKnownHosts /\ IdleEnv
    /\ IdleExec /\ IdleScan /\ IdleHTTP

NextMetrics ==
    \/ (\E g \in DOMAIN mCalls : MLock(g)) /\ UNCHANGED exceptMetrics
    \/ (\E g \in DOMAIN mCalls : MReadCount(g)) /\ UNCHANGED exceptMetrics
    \/ (\E g \in DOMAIN mCalls : MWriteCount(g)) /\ UNCHANGED exceptMetrics
    \/ (\E g \in DOMAIN mCalls : MReadDuration(g)) /\ UNCHANGED exceptMetrics
    \/ (\E g \in DOMAIN mCalls : MWriteDuration(g)) /\ UNCHANGED exceptMetrics
    \/ (\E g \in DOMAIN mCalls : MUnlock(g)) /\ UNCHANGED exceptMetrics
    \/ GetStats /\ UNCHANGED exceptMetrics

SpecMetrics == InitMetrics /\ [][NextMetrics]_vars

InitExec ==
    /\ StartExec /\ IdleFleet /\ IdleTransfer /\ IdleSSH /\ IdleAgent
    /\ IdleChunk /\ IdleDispatch /\ IdleUpload /\ IdleKnownHosts /\ IdleEnv
    /\ IdleMetrics /\ IdleScan /\ IdleHTTP

NextExec ==
    \/ ExSpawn /\ UNCHANGED exceptExec
    \/ ExEndLoop /\ UNCHANGED exceptExec
    \/ (\E w \in DOMAIN exW : ExAcquire(w)) /\ UNCHANGED exceptExec
    \/ (\E w \in DOMAIN exW : ExExecute(w)) /\ UNCHANGED exceptExec
    \/ (\E w \in DOMAIN exW : ExRelease(w)) /\ UNCHANGED exceptExec
    \/ (\E w \in DOMAIN exW : ExWgDone(w)) /\ UNCHANGED exceptExec
    \/ ExReturn /\ UNCHANGED exceptExec

\* Go's scheduler runs every runnable goroutine and every SSH execution
\* returns: no enabled step is postponed forever.
SpecExecLive == InitExec /\ [][NextExec]_vars /\ WF_vars(NextExec)

InitScan ==
    /\ StartScan /\ StartUpload /\ StartDispatch /\ dN = upN
    /\ IdleFleet /\ IdleTransfer /\ IdleSSH /\ IdleAgent /\ IdleChunk
    /\ IdleKnownHosts /\ IdleEnv /\ IdleMetrics /\ IdleExec /\ IdleHTTP

NextScan ==
    \/ ScanBegin /\ UNCHANGED exceptScan
    \/ (scanPc = "uploading" /\ UpSpawn) /\ UNCHANGED exceptUpload
    \/ (scanPc = "uploading" /\ UpEndLoop) /\ UNCHANGED exceptUpload
    \/ (scanPc = "uploading" /\ \E g \in 1..upN : UpWork(g))
          /\ UNCHANGED exceptUpload
    \/ (scanPc = "uploading" /\ UpReturn) /\ UNCHANGED exceptUpload
    \/ ScanUploaded /\ UNCHANGED exceptScan
    \/ (scanPc = "dispatch" /\ DLoadChunks) /\ UNCHANGED exceptDispatch
    \/ (scanPc = "dispatch" /\ DSpawn) /\ UNCHANGED exceptDispatch
    \/ (scanPc = "dispatch" /\ DEndLoop) /\ UNCHANGED exceptDispatch
    \/ (scanPc = "dispatch" /\ \E g \in 1..dN : DWork(g))
          /\ UNCHANGED exceptDispatch
    \/ (scanPc = "dispatch" /\ DReturn) /\ UNCHANGED exceptDispatch
    \/ ScanReturn /\ UNCHANGED exceptScan

SpecScan == InitScan /\ [][NextScan]_vars

InitHTTP ==
    /\ StartHTTP /\ IdleFleet /\ IdleTransfer /\ IdleSSH /\ IdleAgent
    /\ IdleChunk /\ IdleDispatch /\ IdleUpload /\ IdleKnownHosts /\ IdleEnv
    /\ IdleMetrics /\ IdleExec /\ IdleScan

NextHTTP ==
    \/ HttpDoFails /\ UNCHANGED exceptHTTP
    \/ (\E code \in HttpStatuses : HttpDoAnswers(code)) /\ UNCHANGED exceptHTTP

SpecHTTP == InitHTTP /\ [][NextHTTP]_vars

\* ===================================================================
\* Properties
\* ===================================================================

\* Number of executeOnNode calls in progress.
InFlight == Cardinality({g \in NodeIds : gpc[g] = "running"})

\* The limit k of the run: the configured value when > 0, else the fleet size.
LimitK == IF concParam > 0 THEN concParam ELSE Len(nodes)

\* C1: in every reachable state of executeTaskOnFleet at most k node
\* executions are in progress, k being the configured limit when it is > 0
\* and the number of nodes otherwise.
C1_ConcurrencyBound == InFlight <= LimitK

\* C1 witness: the limit is reached while a further node waits for a slot.
C1_Witness ==
    /\ LimitK < Len(nodes)
    /\ InFlight = LimitK
    /\ \E g \in NodeIds : gpc[g] = "spawned"

\* Nodes whose execution returned exit code 0 / anything else.
ReturnedZero == {g \in NodeIds : gpc[g] = "done" /\ gres[g].ExitCode = 0}
ReturnedNonZero == {g \in NodeIds : gpc[g] = "done" /\ gres[g].ExitCode # 0}

\* C2: when the summary is computed, successful + failed is the number of
\* nodes, successful counts the executions that returned exit code 0 and
\* failed the ones that returned a non-zero code or a transport error, also
\* when nodes share a name; every node's result is kept under its name.
C2_SummaryCountsEveryNode ==
    phase = "Done" =>
        /\ successful + failed = Len(nodes)
        /\ successful = Cardinality(ReturnedZero)
        /\ failed = Cardinality(ReturnedNonZero)
        /\ \A n \in DOMAIN results :
              Len(results[n]) = Cardinality({g \in NodeIds : nodes[g] = n})

\* C2 witness: a finished run over a fleet in which two nodes share a name,
\* one node failed and the others succeeded.
C2_Witness ==
    /\ phase = "Done"
    /\ \E i, j \in NodeIds : i # j /\ nodes[i] = nodes[j]
    /\ failed = 1
    /\ successful = Len(nodes) - 1
    /\ Len(nodes) >= 2

IOErrorsAfterCreate == {"copy file", "create session", "calculate remote checksum"}

\* C4: a TransferFile call that fails with an I/O error after the remote
\* file was created and before the hash comparison leaves no file at the
\* remote path.
C4_IOErrorLeavesNoFile ==
    (tfPc = "returned" /\ tfErr \in IOErrorsAfterCreate) => ~remoteFile.exists

C6_HostKeyFailureNotRetried ==
    \A i \in 1..Len(dialLog) : dialLog[i] = "hostkey" => i = Len(dialLog)

\* C7: every connection the program establishes was verified by a callback
\* that rejects unknown and mismatched hosts.
C7_EveryConnectionVerified ==
    caller # "api" => \A i \in 1..Len(conns) : conns[i].verifier = "strict"

\* The request presents the configured token in one of the two headers.
PresentsToken ==
    \/ req.auth = "Bearer " \o agentToken
    \/ req.xauth = agentToken

ExecRequestSeen == agPc \in {"received", "waiting", "responded"} /\ req.path = "/v0/exec"

\* C8: with a token configured, an exec request that presents it in neither
\* header is answered 401 and starts no process; one that presents it in
\* either header is not answered 401.
C8_TokenRequired ==
    (ExecRequestSeen /\ agentToken # "") =>
        /\ ~PresentsToken => (procStarts = 0 /\ (agPc = "responded" => resp.status = 401))
        /\ (PresentsToken /\ agPc = "responded") => resp.status # 401

\* C8 witness: a well-formed exec request carrying another token in both
\* headers has been answered.
C8_Witness ==
    /\ agPc = "responded"
    /\ req.path = "/v0/exec"
    /\ agentToken = "t1"
    /\ req.auth = "Bearer t2"
    /\ req.xauth = "t2"
    /\ req.body.kind = "exec"
    /\ req.body.cmd = "succeeds"
    /\ resp.status = 401

\* C9: when the agent is run with mutual TLS enforced, every exec request
\* that starts a process came with a client certificate valid under the CA.
C9_MTLSEnforced ==
    (mtlsRequired /\ procStarts > 0) => req.cert = "valid"

\* C10: an exec request with timeout t > 0 whose command runs longer than t
\* is answered at the deadline with a non-zero exit code, the child being
\* terminated; no answered request leaves its child running.
C10_TimeoutKills ==
    /\ (agPc = "responded" /\ procStarts > 0 /\ req.body.timeout > 0
          /\ req.body.dur > req.body.timeout)
          => (elapsed = req.body.timeout /\ resp.exit_code # 0 /\ proc = "killed")
    /\ agPc = "responded" => proc # "running"

\* C10 witness: timeout 1 against a command that would run MaxDur seconds.
C10_Witness ==
    /\ agPc = "responded"
    /\ req.body.kind = "exec"
    /\ req.body.timeout = 1
    /\ req.body.dur = MaxDur
    /\ proc = "killed"
    /\ resp.status = 200

\* C11 as stated: every malformed exec request is answered 400 and starts no
\* process.
C11_MalformedAnswered400 ==
    (agPc = "responded" /\ req.path = "/v0/exec" /\ req.body.kind = "malformed")
        => (resp.status = 400 /\ procStarts = 0)

\* C11: an exec request whose body cannot be decoded never starts a process;
\* it is answered 400 when it passes the token check (no token configured, or
\* the token presented in either header) and 401 when it does not.
C11_MalformedRejected ==
    (ExecRequestSeen /\ req.body.kind = "malformed") =>
        /\ procStarts = 0
        /\ agPc = "responded" =>
              resp.status = IF agentToken = "" \/ PresentsToken THEN 400 ELSE 401

\* C11 witness: a malformed body sent with the configured token was answered
\* 400.
C11_Witness ==
    /\ agPc = "responded"
    /\ req.path = "/v0/exec"
    /\ req.body.kind = "malformed"
    /\ agentToken = "t1"
    /\ req.xauth = "t1"
    /\ resp.status = 400
    /\ procStarts = 0

RECURSIVE Flatten(_)
\* The concatenation of the chunks, in order.
Flatten(cs) == IF cs = <<>> THEN <<>> ELSE Head(cs) \o Flatten(Tail(cs))

\* ceil(n / d) for d > 0.
CeilDiv(n, d) == (n + d - 1) \div d

\* C13: the chunks returned by ChunkInputs, concatenated in order, are the
\* input list; there is one chunk when size <= 0 and ceil(len/size) chunks
\* otherwise.
C13_ChunksPartitionInput ==
    ciPc = "returned" =>
        /\ Flatten(ciChunks) = ciInputs
        /\ Len(ciChunks) = IF ciSize <= 0 THEN 1
                            ELSE CeilDiv(Len(ciInputs), ciSize)

\* C13 witness: an empty list with size <= 0 has given one empty chunk.
C13_Witness ==
    /\ ciPc = "returned"
    /\ ciInputs = <<>>
    /\ ciSize <= 0
    /\ ciChunks = << <<>> >>

\* C14: for size > 0 the j-th chunk is the run of the input from position
\* (j-1)*size+1 on, of exactly size items when it is not the last chunk and
\* of 1..size items when it is.
C14_ChunksAreContiguousRuns ==
    (ciPc = "returned" /\ ciSize > 0) =>
        \A j \in 1..Len(ciChunks) :
            /\ IF j < Len(ciChunks)
               THEN Len(ciChunks[j]) = ciSize
               ELSE Len(ciChunks[j]) \in 1..ciSize
            /\ \A k \in 1..Len(ciChunks[j]) :
                  /\ (j - 1) * ciSize + k <= Len(ciInputs)
                  /\ ciChunks[j][k] = ciInputs[(j - 1) * ciSize + k]

\* C14 witness: [a,b,c,d,e] with size 2 has given [[a,b],[c,d],[e]].
C14_Witness ==
    /\ ciPc = "returned"
    /\ ciInputs = <<"a", "b", "c", "d", "e">>
    /\ ciSize = 2
    /\ ciChunks = << <<"a", "b">>, <<"c", "d">>, <<"e">> >>

\* C15: with C >= 1 chunks, the goroutine started for the node at position i
\* (0-indexed) was given chunk i mod C, and the exec request it sends carries
\* that chunk and no other.
C15_RoundRobinAssignment ==
    Len(inputChunks) >= 1 =>
        \A g \in 1..dI :
            /\ dChunkArg[g].idx = (g - 1) % Len(inputChunks)
            /\ dChunkArg[g].chunk = inputChunks[((g - 1) % Len(inputChunks)) + 1]
            /\ dAgent[g] # "none" => dSent[g] = <<dChunkArg[g].chunk>>

\* C15 witness: three nodes and two chunks, the nodes were sent chunks 0, 1, 0.
C15_Witness ==
    /\ dPc = "returned"
    /\ dN = 3
    /\ Len(inputChunks) = 2
    /\ dChunkArg[1].idx = 0
    /\ dChunkArg[2].idx = 1
    /\ dChunkArg[3].idx = 0
    /\ dSent[3] = <<inputChunks[1]>>

\* Indices of the chunks given to a goroutine so far.
DispatchedChunks == {dChunkArg[g].idx : g \in 1..dI}

\* C16: with more chunks than nodes no chunk of index >= N is ever given to
\* a node, and the run ends having dispatched exactly the chunks 0..N-1 and
\* returning nil.
C16_SurplusChunksUnscheduled ==
    Len(inputChunks) > dN =>
        /\ DispatchedChunks \subseteq 0..(dN - 1)
        /\ \A g \in 1..dN : \A k \in 1..Len(dSent[g]) :
              \E c \in 1..dN : dSent[g][k] = inputChunks[c]
        /\ dPc = "returned" => (DispatchedChunks = 0..(dN - 1) /\ dRet = "nil")

\* C16 witness: two nodes, four chunks, the run has returned.
C16_Witness ==
    /\ dPc = "returned"
    /\ dN = 2
    /\ Len(inputChunks) = 4
    /\ dRet = "nil"

RECURSIVE InFleetOrder(_, _)
\* The outcomes of the nodes named n at positions g.., in fleet order.
InFleetOrder(n, g) ==
    IF g > Len(nodes) THEN <<>>
    ELSE (IF nodes[g] = n THEN <<gres[g]>> ELSE <<>>) \o InFleetOrder(n, g + 1)

\* C17: what the finished run has recorded is the same in every interleaving:
\* the list kept under each name is fixed by the fleet and the per-node
\* outcomes alone (the outcomes of the nodes of that name, in fleet order), and
\* so are the two counts.
C17_ReportIndependentOfOrder ==
    phase = "Done" =>
        /\ \A n \in DOMAIN results : results[n] = InFleetOrder(n, 1)
        /\ successful = Cardinality(ReturnedZero)
        /\ failed = Cardinality(ReturnedNonZero)

\* The call goes through Client.RunCommand.
ViaRunCommand == caller \in {"ssh", "api"} /\ sshPc # "caller"

\* C18: RunCommand dials at most Retries+1 times (once when Retries < 0),
\* waits before every dial after the first, each wait longer than the one
\* before, and when the last permitted dial has failed it returns that
\* dial's error.
C18_BoundedRetriesWithBackoff ==
    ViaRunCommand =>
        /\ Len(dialLog) <= ClampRetries(clientRetries) + 1
        /\ Len(waits) >= Len(dialLog) - 1
        /\ \A i \in 1..Len(waits) : waits[i] > 0
        /\ \A i \in 1..(Len(waits) - 1) : waits[i] < waits[i + 1]
        /\ (/\ sshPc = "returned"
            /\ Len(dialLog) = ClampRetries(clientRetries) + 1
            /\ dialLog[Len(dialLog)] # "ok")
              => sshRet = dialLog[Len(dialLog)]

\* C18 witness: Retries = MaxRetries, every dial failed transiently, the
\* call has returned after MaxRetries waits.
C18_Witness ==
    /\ ViaRunCommand
    /\ sshPc = "returned"
    /\ clientRetries = MaxRetries
    /\ Len(dialLog) = MaxRetries + 1
    /\ \A i \in 1..Len(dialLog) : dialLog[i] = "transient"
    /\ Len(waits) = MaxRetries
    /\ sshRet = "transient"

UploadsFailed == {g \in 1..upN : upNode[g] = "failed"}
NodesNamedInError == IF upRet.err = "upload to" THEN {upRet.node} ELSE {}

\* C20: when uploadFilesToFleet has returned, the error it returned names
\* every node whose upload failed.
C20_EveryFailedNodeReported ==
    upPc = "returned" => UploadsFailed \subseteq NodesNamedInError

\* A well-formed exec request that passed the token check was answered.
ExecHandled ==
    /\ agPc = "responded"
    /\ req.path = "/v0/exec"
    /\ req.body.kind = "exec"
    /\ agentToken = "" \/ PresentsToken

\* C23: the response to a command that cannot be launched has exit code 1
\* and the launch error's text in its stderr field.
C23_LaunchFailureInStderr ==
    (ExecHandled /\ req.body.cmd = "missing") =>
        (resp.exit_code = 1 /\ resp.stderr = LaunchErrorText)

\* C24: every exec request that passed the token check and the decoding is
\* answered 200; when the child ended by itself the exit_code is its exit
\* status, with its output in stdout when that status is 0.
C24_ExitCodeIsChildStatus ==
    ExecHandled =>
        /\ resp.status = 200
        /\ resp.body = "exec"
        /\ proc = "exited" =>
              /\ resp.exit_code = ChildExitStatus(req.body.cmd)
              /\ req.body.cmd = "succeeds" =>
                    (resp.exit_code = 0 /\ resp.stdout = ChildStdout(req.body.cmd))
              /\ req.body.cmd = "fails" => resp.exit_code # 0

\* C24 witness: a command that exits with its own non-zero status was
\* answered with that status.
C24_Witness ==
    /\ ExecHandled
    /\ proc = "exited"
    /\ req.body.cmd = "fails"
    /\ resp.status = 200
    /\ resp.exit_code = 3

\* The run went through to its summary.
RunReported == dPc = "returned" /\ dRet # "load inputs"

DispatchFailed == {g \in 1..dN : dResult[g].ExitCode # 0}

\* C21: a run that reached its summary returns an error to its caller exactly
\* when a node failed, and the result of every node is kept either way.
C21_FailedRunReported ==
    RunReported =>
        /\ (dRet # "nil") <=> (DispatchFailed # {})
        /\ \A g \in 1..dN : dResult[g] = ExecuteOnNodeResult(dAgent[g])

\* What a failed node has to show for diagnosis: the transport error's text,
\* or what its command wrote to its standard error.
CapturedStderr(o) ==
    IF o \in TransportErrors THEN TransportFailure.Stderr
    ELSE ChildStderr(CommandOf(o))

\* C22: for every failed node the final report prints that node's captured
\* stderr.
C22_FailedNodesStderrReported ==
    RunReported =>
        \A g \in DispatchFailed : dReport[g] = CapturedStderr(dAgent[g])

\* C30: the dispatch loop never takes the chunk index modulo an empty chunk
\* list.
C30_ChunkListNeverEmpty ==
    /\ (dPc = "loop" /\ dI < dN) => Len(inputChunks) >= 1
    /\ dPc # "panicked"


\* Whether sequence s is a prefix of sequence t.
IsPrefix(s, t) == Len(s) <= Len(t) /\ SubSeq(t, 1, Len(s)) = s

\* C25: the known-hosts file is append-only: every operation of the program,
\* "gaxx init" with or without --force included, leaves the entries the file
\* held before it at the head of the file, in order and unchanged, and
\* AppendKnownHost adds at most one entry after them.
C25_KnownHostsAppendOnly ==
    /\ IsPrefix(khBefore, khEntries)
    /\ khOp = "append" => Len(khEntries) <= Len(khBefore) + 1


\* How the node reads an entry of the environment: the name is what stands
\* before the first "=", the value what stands after it.
FirstEquals(e) == CHOOSE i \in 1..Len(e) : e[i] = "=" /\ \A j \in 1..(i - 1) : e[j] # "="

EntryKey(e) == SubSeq(e, 1, FirstEquals(e) - 1)

EntryValue(e) == SubSeq(e, FirstEquals(e) + 1, Len(e))

SentValues(k) == {EntryValue(execReqEnv[i]) : i \in {j \in DOMAIN execReqEnv : EntryKey(execReqEnv[j]) = k}}

\* C26: the environment sent to the node holds each key once; a key the
\* caller gave carries the caller's value, also when the task module declares
\* it too, and a key only the task module declares carries the module's value.
C26_CallerEnvWins ==
    envPc = "sent" =>
        /\ Len(execReqEnv) = Cardinality(DOMAIN declaredEnv \cup DOMAIN envVars)
        /\ \A k \in EnvKeys :
              SentValues(k) =
                  IF k \in DOMAIN envVars THEN {envVars[k]}
                  ELSE IF k \in DOMAIN declaredEnv THEN {declaredEnv[k]}
                  ELSE {}

\* A key collision with different values, next to a key of the module alone
\* and, in another run, a key of the caller alone.
C26_Witness ==
    /\ envPc = "sent"
    /\ \E k \in DOMAIN envVars \cap DOMAIN declaredEnv : envVars[k] # declaredEnv[k]
    /\ DOMAIN declaredEnv \ DOMAIN envVars # {}


\* The calls of one kind.
CallsOf(kind) == {g \in DOMAIN mCalls : mCalls[g].kind = kind}

\* C27: when GetStats is called after n RecordRequest calls and m RecordError
\* calls made by concurrent goroutines have all returned, it returns
\* requests = n, errors = m and duration = the sum of the durations recorded.
C27_MetricsExact ==
    (mStats.taken /\ mStats.returned = DOMAIN mCalls) =>
        /\ mStats.requests = Cardinality(CallsOf("RecordRequest"))
        /\ mStats.errors = Cardinality(CallsOf("RecordError"))
        /\ mStats.duration = SumOver([g \in DOMAIN mCalls |-> mCalls[g].d], DOMAIN mCalls)

\* Three goroutines, two recording requests and one an error, and the
\* statistics read after all of them returned.
C27_Witness ==
    /\ mStats.taken
    /\ mStats.returned = DOMAIN mCalls
    /\ Cardinality(CallsOf("RecordRequest")) >= 2
    /\ CallsOf("RecordError") # {}

\* C28: one call of Client.RunCommand starts the remote command at most
\* once: after the command ran on an established session and returned an
\* error, no further connection is made to run it again.
C28_CommandRunAtMostOnce == ViaRunCommand => cmdRuns <= 1


\* C29: Gaxx.ExecuteTasks terminates for every Concurrency, 0 included:
\* wg.Wait returns and the call returns.
C29_ExecuteTasksTerminates == <>(exPc = "returned")

\* Workers between "semaphore <- struct{}{}" and "<-semaphore".
SlotHolders == {g \in NodeIds : gpc[g] \in {"running", "returned", "locked", "written"}}

\* C31: the slots held are exactly the workers between acquire and release,
\* whatever their execution returned, and every slot is free once wg.Wait
\* has returned.
C31_SlotsHeldByWorkers ==
    /\ semaphore = Cardinality(SlotHolders)
    /\ phase \in {"Reporting", "Done"} => semaphore = 0

\* C31 witness: a worker whose execution failed has given its slot back
\* while another worker still holds one.
C31_Witness ==
    /\ \E g \in NodeIds : gpc[g] \in {"released", "done"} /\ gres[g].ExitCode # 0
    /\ \E h \in NodeIds : gpc[h] = "running"
    /\ semaphore = 1

\* Workers between mu.Lock() and mu.Unlock().
InWriteSection == {g \in NodeIds : gpc[g] = "locked"}

\* C32: at most one worker is inside the result-write section, and the
\* counts are computed only after every dispatched worker recorded its
\* result and finished.
C32_ExclusiveWritesReadAfterJoin ==
    /\ Cardinality(InWriteSection) <= 1
    /\ \A g \in InWriteSection : mu = g
    /\ phase \in {"Reporting", "Done"} =>
          /\ \A g \in NodeIds : gpc[g] = "done"
          /\ SumOver([n \in DOMAIN results |-> Len(results[n])], DOMAIN results)
                = Len(nodes)

\* C32 witness: one worker writes while another, back from its node, waits
\* for the mutex.
C32_Witness ==
    \E g, h \in NodeIds : gpc[g] = "locked" /\ gpc[h] = "returned"

\* C33: a node is never sent a second execution request, and when the run
\* reports, every node of the fleet was sent exactly one, whether the agent
\* answered exit code 0, another exit code, or the call failed in transport.
C33_OneRequestPerNode ==
    /\ \A g \in 1..dN : Len(dSent[g]) <= 1 /\ dSshRuns[g] = 0
    /\ RunReported => \A g \in 1..dN : Len(dSent[g]) = 1

\* C33 witness: a reported run whose three nodes ended in the three ways.
C33_Witness ==
    /\ RunReported
    /\ dN = 3
    /\ dAgent = <<"exit0", "exitN", "refused">>
    /\ \A g \in 1..dN : Len(dSent[g]) = 1

\* RunCommand stands at an attempt boundary: before an attempt, or in the
\* backoff wait that precedes the next one.
AtAttemptBoundary ==
    /\ ViaRunCommand
    /\ \/ sshPc = "rc_select"
       \/ sshPc = "rc_backoff" /\ ShouldRetry(attempt, retries)

\* C34: once the context is cancelled at an attempt boundary of
\* Client.RunCommand, before an attempt or during a backoff wait, no further
\* connection attempt is started and the call returns the context's error.
C34_CancellationStopsAttempts ==
    []((AtAttemptBoundary /\ ctxCancelled) =>
          [](sshPc # "rc_dial" /\ (sshPc = "returned" => sshRet = "context canceled")))

\* C34 witness: the call returned the context's error out of the backoff
\* wait that followed a failed attempt, with retries left.
C34_Witness ==
    /\ ViaRunCommand
    /\ sshPc = "returned"
    /\ sshRet = "context canceled"
    /\ Len(dialLog) = attempt + 1
    /\ attempt < retries

\* The call goes through Dial.
ViaDial == caller \in {"scp", "transfer"} /\ sshPc \notin {"caller", "dial_config"}

OpenConns == {i \in 1..Len(conns) : conns[i].open}

\* C35: after Dial returned the context's error, no connection it
\* established stays open, also when the handshake completes after the
\* cancellation.
C35_CancelledDialLeavesNoConnection ==
    (ViaDial /\ sshPc = "returned" /\ sshRet = "context canceled") => OpenConns = {}

\* C36: when Client.RunCommand has returned, with or without an error, every
\* connection it dialled is closed.
C36_RunCommandClosesConnections ==
    (ViaRunCommand /\ sshPc = "returned") => OpenConns = {}

\* Nodes that were sent a task execution request.
NodesSentExec == {g \in 1..dN : dSent[g] # <<>>}

\* C37: in a scan run that uploads files, a task execution request is sent
\* only after the upload to every node has succeeded; when an upload failed,
\* runScanCommand returns the upload error and no node is sent a request.
C37_ExecutionOnlyAfterUploads ==
    scanUploads =>
        /\ NodesSentExec # {} =>
              upPc = "returned" /\ \A g \in 1..upN : upNode[g] = "ok"
        /\ (scanPc = "returned" /\ UploadsFailed # {}) =>
              scanRet = "upload files" /\ NodesSentExec = {}
        /\ UploadsFailed # {} => scanPc \in {"uploading", "returned"}

\* C37 witness: the upload to one of three nodes failed and the scan
\* returned.
C37_Witness ==
    /\ scanUploads
    /\ scanPc = "returned"
    /\ upN = 3
    /\ Cardinality(UploadsFailed) = 1
    /\ scanRet = "upload files"

\* An attempt that failed: a transport error or a retryable status.
FailedAttempt(o) == o.kind = "error" \/ o.status \in RetryableErrors

\* C38: Do makes at most MaxRetries+1 attempts, every attempt but the last
\* ended in a transport error or in one of 429, 500, 502, 503, 504, and when
\* the last of MaxRetries+1 attempts failed too, Do returns an error.
C38_BoundedRetriesThenError ==
    /\ Len(hLog) <= hMaxRetries + 1
    /\ \A i \in 1..(Len(hLog) - 1) : FailedAttempt(hLog[i])
    /\ (hPc = "returned" /\ Len(hLog) = hMaxRetries + 1
            /\ FailedAttempt(hLog[Len(hLog)])) => hRet.err # "nil"

\* C39: LoadKnownHostsCallback and the handshake of Dial and RunCommand
\* leave the entries of the known-hosts file as they were, also when the
\* host that presents its key is not recorded; an entry the file did not
\* hold before an operation was added by AppendKnownHost.
C39_ConnectingNeverUpdatesTrust ==
    /\ khOp \in {"load", "dial"} => khEntries = khBefore
    /\ Range(khEntries) \ Range(khBefore) # {} => khOp = "append"

\* C39 witness: a host that is not recorded presented its key to the
\* callback loaded from a file with an entry, and was refused.
C39_Witness ==
    /\ khOp = "dial"
    /\ khErr = "hostkey"
    /\ khEntries # <<>>
    /\ khLoaded.db = Range(khEntries)

=============================================================================
